---- MODULE Spec2Model ----
(***************************************************************************)
(* Model of the claude-code-container repository.                          *)
(*                                                                         *)
(*   src/server.js     the Task Executor: an HTTP server inside a          *)
(*                     container that spawns the `claude` process, keeps   *)
(*                     the task records in the Map `tasks` and serves      *)
(*                     status queries.                                     *)
(*   src/src/index.ts  the Orchestrator: runAgent submits a prompt to the  *)
(*                     container of its agent id, polls the status, writes *)
(*                     a log entry and notifies a webhook.                 *)
(*                                                                         *)
(* A JavaScript value that may be null/undefined is modelled as a sequence *)
(* of length at most one: <<>> is null/undefined, <<v>> is the value v.    *)
(***************************************************************************)
EXTENDS Integers, Sequences, FiniteSets, TLC

\* ------------------------------------------------------------------ bounds
\* Number of task objects created by POST /run over one behaviour.
MaxRecs == 2
\* Number of stdout/stderr 'data' events delivered over one behaviour.
MaxData == 1
\* Last value of the millisecond clock Date.now() (it starts at 0).
MaxNow == 1
\* Status queries per call in the behaviours with two concurrent calls.
MaxPolls == 2
\* POST /run-sync requests that spawn a child.
MaxSync == 1
\* Longest output or error text handed to sendSlackNotification.
MaxMessage == 2600
\* The log store read by getAgentLogs holds up to MaxLogs + 1 entries of an agent.
MaxLogs == 6

\* --------------------------------------------------------------- constants
WORKSPACE == "/workspace"

\* AGENTS: the agent ids with a definition, and their names.
AGENTS ==
    [pentest |-> "Penetration Tester", bughunter |-> "Bug Hunter",
     datainsights |-> "Data Insights Analyst", feedback |-> "Feedback Analyzer",
     investor |-> "Skeptical Investor", kpi |-> "KPI Analyzer"]

\* getContainer(env.CLAUDE_CODE, agentId): one container per agent id.
Containers == DOMAIN AGENTS

\* The containers whose HTTP surface is driven directly by clients.  Each
\* container runs its own copy of server.js with its own `tasks` Map, so
\* one container stands for all of them.
ClientContainers == {"pentest"}

Null == <<>>
Some(v) == <<v>>
IsSet(o) == o # <<>>
Val(o) == o[1]

\* ------------------------------------------------------------------- state
VARIABLES
    tasks,      \* tasks[c]: the Map `tasks` of container c, task id -> index in recs
    recs,       \* the task objects created by POST /run, in creation order
    child,      \* child[k]: the child process spawned for recs[k]
    dirs,       \* directories that exist under the workspace
    now,        \* Date.now()
    http,       \* the HTTP exchange handled in the last step, if it was one
    served,     \* served[k]: terminal snapshots of recs[k] sent so far (history)
    dataEvents, \* number of 'data' events delivered so far (history)
    env,        \* the Worker's environment bindings
    inv,        \* inv[i]: the runAgent call i, its locals and its position
    logs,       \* the KV namespace AGENT_LOGS: key -> stored entry
    hook,       \* the notifications the webhook has received
    sync,       \* sync[k]: the k-th POST /run-sync request that spawned a child
    dash        \* the dashboard page: the run started by its Run button

workerVars == <<env, inv, logs, hook, sync, dash>>
vars == <<tasks, recs, child, dirs, now, http, served, dataEvents, env, inv, logs,
          hook, sync, dash>>

\* The dashboard before its Run button is pressed.
IdleDash == [pc |-> "idle", key |-> "", warm |-> "", retryCount |-> 0,
             requests |-> 0, delay |-> 0, answers |-> <<>>, status |-> "idle"]

\* ------------------------------------------------------- request contents
\* The prompt field of a request body, by JavaScript type.
PromptMissing == [t |-> "undefined", v |-> ""]
PromptStr(s) == [t |-> "string", v |-> s]
PromptNum == [t |-> "number", v |-> "5"]
PromptInputs == {PromptMissing, PromptStr(""), PromptStr("analyse"), PromptNum}
StringPrompts == {p \in PromptInputs : p.t # "number"}

\* !prompt
Falsy(prompt) == prompt.t = "undefined" \/ (prompt.t = "string" /\ prompt.v = "")

Workdirs == {"repo"}

\* A request body: text that JSON.parse rejects, or an object.  (The apiKey
\* field only adds a variable to the environment of the child.)
MalformedBody == [kind |-> "malformed", prompt |-> PromptMissing,
                  workdir |-> Null, agentId |-> Null]
JsonBodies(prompts, workdirs, ids) ==
    [kind : {"json"}, prompt : prompts,
     workdir : {Null} \cup {Some(w) : w \in workdirs},
     agentId : {Null} \cup {Some(a) : a \in ids}]

\* The bodies clients send in Spec: every way to pass or fail the prompt
\* check, with and without a task id.  SpecFs adds the working directory and
\* a prompt that makes spawn throw.
ClientBodies == {MalformedBody} \cup JsonBodies(StringPrompts, {}, ClientContainers)
FsBodies == {MalformedBody} \cup JsonBodies(PromptInputs, Workdirs, ClientContainers)

\* path.join(WORKSPACE, workdir)
PathJoin(base, rel) == base \o "/" \o rel

\* `task-${Date.now()}`
GeneratedTaskId(t) == "task-" \o ToString(t)

\* Map operations
MapSet(m, k, v) == [x \in (DOMAIN m) \cup {k} |-> IF x = k THEN v ELSE m[x]]
MapDelete(m, k) == [x \in (DOMAIN m) \ {k} |-> m[x]]
EmptyMap == [x \in {} |-> 0]

\* ---------------------------------------------------------- JSON.parse
\* Chunks the process writes to its standard output.
StdoutChunks == {"{\"result\":\"hello\"}", "oops"}
StderrChunks == {"warn"}

\* A JSON value, tagged with its JavaScript type: a string s, or an object
\* of which the fields raw and result are kept.
JsonString(str) == [t |-> "string", s |-> str, raw |-> Null, result |-> Null]
JsonObject(raw, result) == [t |-> "object", s |-> "", raw |-> raw, result |-> result]

\* JSON.parse(text): Some(value) for the texts that are JSON, Null when
\* JSON.parse throws.
JSONParse(text) ==
    CASE text = "{\"result\":\"hello\"}" -> Some(JsonObject(Null, Some("hello")))
      [] OTHER -> Null

\* Mutant of ParseResult: the output is never parsed, only wrapped.
ParseResultAlwaysRaw(stdout) == JsonObject(Some(stdout), Null)

\* try { JSON.parse(stdout) } catch { { raw: stdout } }
ParseResult(stdout) ==
    IF IsSet(JSONParse(stdout)) THEN Val(JSONParse(stdout))
    ELSE JsonObject(Some(stdout), Null)

\* ------------------------------------------------------------ HTTP replies
\* An exchange: the request (operation, container, task id, prompt) and the
\* response (status code and JSON payload).
Exchange(op, c, taskId, prompt, code, payload) ==
    [op |-> op, c |-> c, taskId |-> taskId, prompt |-> prompt,
     code |-> code, payload |-> payload]

ErrorPayload == [kind |-> "error"]

\* The value of http after a step that handled no request.
NoExchange == Exchange("none", "pentest", Null, PromptMissing, 0, ErrorPayload)

\* ------------------------------------------------------------ the heap
\* A task object that nothing refers to any more: it is in no Map and its
\* child, whose callbacks hold the only other reference, has ended (or was
\* never created).  Such objects are garbage; they are all represented by
\* one value.
GoneTask ==
    [status |-> "gone", startTime |-> 0, stdout |-> "", stderr |-> "",
     exitCode |-> Null, cwd |-> WORKSPACE,
     endTime |-> Null, result |-> Null, error |-> Null]
GoneChild ==
    [st |-> "gone", spawnFailed |-> FALSE, errorEmitted |-> FALSE,
     signalled |-> FALSE, code |-> Null]

InStore(k, tk) == \E c \in DOMAIN tk : \E id \in DOMAIN tk[c] : tk[c][id] = k
IsGarbage(k, ch, tk) == ~InStore(k, tk) /\ ch[k].st \in {"closed", "none", "gone"}
SweepTasks(rs, ch, tk) ==
    [k \in DOMAIN rs |-> IF IsGarbage(k, ch, tk) THEN GoneTask ELSE rs[k]]
SweepChildren(ch, tk) ==
    [k \in DOMAIN ch |-> IF IsGarbage(k, ch, tk) THEN GoneChild ELSE ch[k]]

\* The executor's state after a step: Map, task objects, children, directories.
Commit(tk, rs, ch, ds) ==
    /\ tasks' = tk
    /\ recs' = SweepTasks(rs, ch, tk)
    /\ child' = SweepChildren(ch, tk)
    /\ dirs' = ds

\* ------------------------------------------------------- POST /run handler
\* The task object stored by tasks.set
NewTask(cwd) ==
    [status |-> "running", startTime |-> now, stdout |-> "", stderr |-> "",
     exitCode |-> Null, cwd |-> cwd,
     endTime |-> Null, result |-> Null, error |-> Null]

\* const taskId = agentId || `task-${Date.now()}`
ChooseTaskId(body) ==
    IF IsSet(body.agentId) THEN Val(body.agentId) ELSE GeneratedTaskId(now)

\* const cwd = workdir ? path.join(WORKSPACE, workdir) : WORKSPACE
ChooseCwd(body) ==
    IF IsSet(body.workdir) THEN PathJoin(WORKSPACE, Val(body.workdir)) ELSE WORKSPACE

\* Mutant of RegisterTask: the record is not put into the Map.
RegisterTaskSkipped(m, taskId, k) == m

\* tasks.set(taskId, {...}): the entry of taskId now refers to the new object
RegisterTask(m, taskId, k) == MapSet(m, taskId, k)

\* The child process returned by spawn.  spawnFails: the binary cannot be
\* started, which Node reports asynchronously by an 'error' event followed
\* by a 'close' event whose code is the negative errno.
NewChild(spawnFails) ==
    [st |-> "running", spawnFailed |-> spawnFails, errorEmitted |-> FALSE,
     signalled |-> FALSE, code |-> Null]
\* The variables the callbacks of a child close over besides `task`: the
\* Map of the server they run in and the taskId of the request.
Listening(ch, c, taskId) == ch @@ [c |-> c, taskId |-> taskId]
\* spawn threw synchronously: there is no child process
NoChild ==
    [st |-> "none", spawnFailed |-> FALSE, errorEmitted |-> FALSE,
     signalled |-> FALSE, code |-> Null]

\* spawn('claude', [..., '-p', prompt], ...) throws ERR_INVALID_ARG_TYPE when
\* an argument is not a string
SpawnThrows(prompt) == prompt.t # "string"

\* Mutant of RejectsPrompt: only a missing prompt is rejected (prompt === undefined).
RejectsMissingPromptOnly(body) == body.prompt.t = "undefined"

\* if (!prompt) { 400 ... return }
RejectsPrompt(body) == Falsy(body.prompt)

StartedPayload(taskId) == [kind |-> "started", taskId |-> taskId, status |-> "running"]

\* The whole req.on('end') callback of POST /run: the state it leaves and
\* the response it sends.  mkdirThrows and spawnFails are the environment's
\* choices.
RunHandler(c, body, mkdirThrows, spawnFails) ==
    LET taskId == ChooseTaskId(body)
        cwd == ChooseCwd(body)
        k == Len(recs) + 1
        unchanged == [tasks |-> tasks, recs |-> recs, child |-> child, dirs |-> dirs,
                      served |-> served]
    IN
    IF body.kind = "malformed" THEN
        [st |-> unchanged,
         http |-> Exchange("run", c, Null, body.prompt, 400, ErrorPayload)]
    ELSE IF RejectsPrompt(body) THEN
        [st |-> unchanged,
         http |-> Exchange("run", c, Null, body.prompt, 400, ErrorPayload)]
    ELSE IF cwd \notin dirs /\ mkdirThrows THEN
        [st |-> unchanged,
         http |-> Exchange("run", c, Null, body.prompt, 400, ErrorPayload)]
    ELSE
        LET registered ==
                [tasks |-> [tasks EXCEPT ![c] = RegisterTask(@, taskId, k)],
                 recs |-> Append(recs, NewTask(cwd)),
                 child |-> Append(child, IF SpawnThrows(body.prompt) THEN NoChild
                                         ELSE Listening(NewChild(spawnFails),
                                                        c, taskId)),
                 dirs |-> dirs \cup {cwd},
                 served |-> Append(served, 0)]
        IN IF SpawnThrows(body.prompt) THEN
              [st |-> registered,
               http |-> Exchange("run", c, Some(taskId), body.prompt, 400, ErrorPayload)]
           ELSE
              [st |-> registered,
               http |-> Exchange("run", c, Some(taskId), body.prompt, 202,
                                 StartedPayload(taskId))]

\* --------------------------------------------------- GET /status/{taskId}
IsTerminal(status) == status = "completed" \/ status = "failed"

\* response.stderr = task.stderr || undefined
OrUndefined(s) == IF s = "" THEN Null ELSE Some(s)

\* The response object built from the task object.  (elapsed is
\* Date.now() - startTime.)
Snapshot(taskId, task) ==
    IF IsTerminal(task.status) THEN
        [kind |-> "status", taskId |-> taskId, status |-> task.status,
         startTime |-> task.startTime,
         endTime |-> task.endTime, exitCode |-> task.exitCode,
         result |-> task.result, stderr |-> OrUndefined(task.stderr),
         error |-> task.error]
    ELSE
        [kind |-> "status", taskId |-> taskId, status |-> task.status,
         startTime |-> task.startTime,
         endTime |-> Null, exitCode |-> Null,
         result |-> Null, stderr |-> Null, error |-> Null]

\* Mutant of CleanUp: the record is kept after retrieval.
CleanUpNever(m, taskId, task) == m

\* if (terminal) tasks.delete(taskId)
CleanUp(m, taskId, task) ==
    IF IsTerminal(task.status) THEN MapDelete(m, taskId) ELSE m

\* served counts up to two
CountServed(n) == IF n < 2 THEN n + 1 ELSE n

\* The GET /status/{taskId} handler: the state it leaves and its response.
StatusHandler(c, taskId) ==
    IF taskId \notin DOMAIN tasks[c] THEN
        [st |-> [tasks |-> tasks, recs |-> recs, child |-> child, dirs |-> dirs,
                 served |-> served],
         http |-> Exchange("status", c, Some(taskId), PromptMissing, 404, ErrorPayload)]
    ELSE
        LET k == tasks[c][taskId]
            task == recs[k]
        IN [st |-> [tasks |-> [tasks EXCEPT ![c] = CleanUp(@, taskId, task)],
                    recs |-> recs, child |-> child, dirs |-> dirs,
                    served |-> IF IsTerminal(task.status)
                               THEN [served EXCEPT ![k] = CountServed(@)]
                               ELSE served],
            http |-> Exchange("status", c, Some(taskId), PromptMissing, 200,
                              Snapshot(taskId, task))]

\* A handler's outcome becomes the next state.
Handle(r) ==
    /\ Commit(r.st.tasks, r.st.recs, r.st.child, r.st.dirs)
    /\ served' = r.st.served
    /\ http' = r.http

\* ------------------------------------------------------- process events
\* claude.stdout.on('data')
OnStdout(task, data) == [task EXCEPT !.stdout = @ \o data]
\* claude.stderr.on('data')
OnStderr(task, data) == [task EXCEPT !.stderr = @ \o data]

\* Mutants of CloseStatus: code > 0 ? 'failed' : 'completed', and
\* code ? 'failed' : 'completed'.
CloseStatusPositive(code) ==
    IF IsSet(code) /\ Val(code) > 0 THEN "failed" ELSE "completed"
CloseStatusTruthy(code) ==
    IF IsSet(code) /\ Val(code) # 0 THEN "failed" ELSE "completed"

\* task.status = code === 0 ? 'completed' : 'failed'
CloseStatus(code) == IF code = Some(0) THEN "completed" ELSE "failed"

\* Mutant of OnClose: the callback leaves task.status as it is.
OnCloseStatusKept(task, code) ==
    [task EXCEPT !.exitCode = code,
                 !.endTime = Some(now),
                 !.result = Some(ParseResult(task.stdout))]

\* Mutant of OnClose: output that JSON.parse rejects makes the task failed.
OnCloseParseFails(task, code) ==
    [task EXCEPT !.status = IF IsSet(JSONParse(task.stdout)) THEN CloseStatus(code)
                            ELSE "failed",
                 !.exitCode = code,
                 !.endTime = Some(now),
                 !.result = JSONParse(task.stdout)]

\* claude.on('close', code => ...)
OnClose(task, code) ==
    [task EXCEPT !.status = CloseStatus(code),
                 !.exitCode = code,
                 !.endTime = Some(now),
                 !.result = Some(ParseResult(task.stdout))]

SpawnErrorMessage == "spawn claude ENOENT"

\* Mutant of OnError: the callback does not set task.endTime.
OnErrorNoEndTime(task, message) ==
    [task EXCEPT !.status = "failed",
                 !.error = Some(message)]

\* claude.on('error', err => ...)
OnError(task, message) ==
    [task EXCEPT !.status = "failed",
                 !.error = Some(message),
                 !.endTime = Some(now)]

\* The codes a 'close' event can carry for a child: the negative errno after
\* a failed spawn (ENOENT is -2), null when the child died from the signal
\* of the kill ceiling, otherwise the exit code of the process.
ExitCodes == {0, 1}
ENOENT == 0 - 2
CloseCodes(ch) ==
    IF ch.spawnFailed THEN {Some(ENOENT)}
    ELSE IF ch.signalled THEN {Null}
    ELSE {Some(n) : n \in ExitCodes}

\* ================================================= Orchestrator: runAgent
\* const MAX_WAIT_MS = 10 * 60 * 1000
MAX_WAIT_MS == 10 * 60 * 1000
\* const POLL_INTERVAL_MS = 5000
POLL_INTERVAL_MS == 5000

\* Math.ceil(a / b) for positive integers
CeilDiv(a, b) == (a + b - 1) \div b

\* Mutant of maxAttempts: Math.floor(...) + 1
maxAttemptsFloorPlusOne == (MAX_WAIT_MS \div POLL_INTERVAL_MS) + 1

\* const maxAttempts = Math.ceil(MAX_WAIT_MS / POLL_INTERVAL_MS)
maxAttempts == CeilDiv(MAX_WAIT_MS, POLL_INTERVAL_MS)

\* The runAgent calls of the model, and the agent ids they are called with
\* ("nobody" has no definition in AGENTS).
Invs == {1}
RunAgentIds == {"pentest", "nobody"}

\* The prompt runAgent composes for an agent (agent.prompt plus the targets).
FullPrompt(agentId) == "prompt of " \o agentId

\* `${agentId}:${startTime}`
\* Mutant of LogKey: the key is the timestamp alone.
LogKeyWithoutAgent(agentId, startTime) == ":" \o ToString(startTime)

\* const logKey = `${agentId}:${startTime}`
LogKey(agentId, startTime) == agentId \o ":" \o ToString(startTime)

\* ((Date.now() - startTime) / 1000).toFixed(1) followed by "s"
DurationText(ms) ==
    LET tenths == (ms + 50) \div 100
    IN ToString(tenths \div 10) \o "." \o ToString(tenths % 10) \o "s"

\* A runAgent call that has not started.
IdleCall ==
    [pc |-> "idle", agentId |-> "", startTime |-> 0, taskId |-> "",
     attempts |-> 0, text |-> "", ret |-> Null,
     submits |-> 0, queries |-> 0, running |-> 0, seen |-> "", seenError |-> FALSE,
     observed |-> Null, failedRequest |-> "", own |-> 0,
     putFailed |-> FALSE, notifyFailed |-> FALSE, timedOut |-> FALSE]

\* JavaScript truthiness of a string and of a JSON value
TruthyStr(str) == str # ""
TruthyJson(v) == v.t = "object" \/ v.s # ""
TruthyOpt(o) == IsSet(o) /\ TruthyStr(Val(o))

\* JSON.stringify(result, null, 2) of an object with the fields kept
Stringify(v) ==
    LET field(name, o) == IF IsSet(o) THEN <<"\n  \"" \o name \o "\": \"" \o Val(o) \o "\"">>
                          ELSE <<>>
        fs == field("raw", v.raw) \o field("result", v.result)
    IN IF fs = <<>> THEN "{}"
       ELSE IF Len(fs) = 1 THEN "{" \o fs[1] \o "\n}"
       ELSE "{" \o fs[1] \o "," \o fs[2] \o "\n}"

\* Mutant of ResultOutput: result.result is looked at before result.raw.
ResultOutputResultFirst(p) ==
    IF IsSet(p.result) /\ TruthyJson(Val(p.result)) THEN
        LET v == Val(p.result)
        IN IF v.t = "string" THEN v.s
           ELSE IF TruthyOpt(v.result) THEN Val(v.result)
           ELSE IF TruthyOpt(v.raw) THEN Val(v.raw)
           ELSE Stringify(v)
    ELSE "No output"

\* The output derived from a terminal status payload (before stderr)
ResultOutput(p) ==
    IF IsSet(p.result) /\ TruthyJson(Val(p.result)) THEN
        LET v == Val(p.result)
        IN IF v.t = "string" THEN v.s
           ELSE IF TruthyOpt(v.raw) THEN Val(v.raw)
           ELSE IF TruthyOpt(v.result) THEN Val(v.result)
           ELSE Stringify(v)
    ELSE "No output"

\* if (status.stderr) output += `\n\nStderr: ${status.stderr}`
DeriveOutput(p) ==
    IF TruthyOpt(p.stderr) THEN ResultOutput(p) \o "\n\nStderr: " \o Val(p.stderr)
    ELSE ResultOutput(p)

\* `${status.exitCode}`
CodeText(code) == IF IsSet(code) THEN ToString(Val(code)) ELSE "null"

\* Mutant of Terminal: a failed status is not checked.
TerminalFailedUnchecked(p) ==
    IF TruthyOpt(p.error) THEN [thrown |-> TRUE, text |-> Val(p.error)]
    ELSE [thrown |-> FALSE, text |-> DeriveOutput(p)]

\* What the terminal branch of the poll loop does with a payload: it throws
\* (thrown, with the message) or goes on to the success log write.
Terminal(p) ==
    IF TruthyOpt(p.error) THEN [thrown |-> TRUE, text |-> Val(p.error)]
    ELSE IF p.status = "failed" THEN
        [thrown |-> TRUE,
         text |-> "Task failed with exit code " \o CodeText(p.exitCode) \o ": "
                    \o DeriveOutput(p)]
    ELSE [thrown |-> FALSE, text |-> DeriveOutput(p)]

TimeoutMessage == "Task timed out after " \o ToString(MAX_WAIT_MS \div 1000) \o " seconds"

\* The entry runAgent stores: {agentId, agentName, timestamp, duration,
\* output | error, success}
LogEntry(call, success) ==
    [agentId |-> call.agentId, agentName |-> AGENTS[call.agentId],
     timestamp |-> now, duration |-> DurationText(now - call.startTime),
     text |-> call.text, success |-> success]

\* The value a call returns
Returned(success, text) == Some([success |-> success, text |-> text])

\* Mutant of PutErrorLog: the catch block stores nothing.
PutErrorLogSkipped(store, key, entry) == store

\* Mutant of PutErrorLog: an entry already stored under the key is kept.
PutErrorLogIfAbsent(store, key, entry) ==
    IF key \in DOMAIN store THEN store ELSE MapSet(store, key, entry)

\* await env.AGENT_LOGS.put(logKey, ...) in the catch block
PutErrorLog(store, key, entry) == MapSet(store, key, entry)

\* await env.AGENT_LOGS.put(logKey, ...) on the success path
PutSuccessLog(store, key, entry) == MapSet(store, key, entry)

\* throw new Error(message) inside the try block: control moves to the catch
\* block with error = message
Throw(call, message) == [call EXCEPT !.pc = "putErr", !.text = message]

\* Mutant of FailedRequest: the request is sent again.
FailedRequestRetried(call, request, message) ==
    [call EXCEPT !.failedRequest = request,
                 !.pc = IF request = "submit" THEN "submit" ELSE "sleep"]

\* container.fetch rejected, or the response was not ok: the error is thrown
\* (the call remembers which request failed).
FailedRequest(call, request, message) ==
    Throw([call EXCEPT !.failedRequest = request], message)

\* Mutant of Slice: the whole text.
SliceAll(str, n) == str

\* str.slice(0, n)
Slice(str, n) == IF Len(str) <= n THEN str ELSE SubSeq(str, 1, n)

\* The notification sendSlackNotification posts to the webhook: the
\* excerpt message.slice(0, 2500) of the text, followed by "..." when the
\* text is longer than 2500
Notification(call, success) ==
    [agentName |-> AGENTS[call.agentId], success |-> success,
     message |-> Slice(call.text, 2500), ellipsis |-> Len(call.text) > 2500]

\* ------------------------------------------------------------- actions
Init ==
    /\ tasks = [c \in Containers |-> EmptyMap]
    /\ recs = <<>>
    /\ child = <<>>
    /\ dirs = {WORKSPACE}
    /\ now = 0
    /\ http = NoExchange
    /\ served = <<>>
    /\ dataEvents = 0
    /\ env = [slack |-> FALSE]
    /\ inv = [i \in Invs |-> IdleCall]
    /\ logs = EmptyMap
    /\ hook = {}
    /\ sync = <<>>
    /\ dash = IdleDash

\* Time passes.
Tick ==
    /\ now < MaxNow
    /\ now' = now + 1
    /\ http' = NoExchange
    /\ UNCHANGED <<tasks, recs, child, dirs, served, dataEvents>>
    /\ UNCHANGED workerVars

\* The environment's choices that a POST /run with this body can meet:
\* mkdirSync is called when cwd does not exist, spawn when the prompt passed
\* the check.
MkdirChoices(body) ==
    IF body.kind = "json" /\ ~RejectsPrompt(body) /\ ChooseCwd(body) \notin dirs
    THEN BOOLEAN ELSE {FALSE}
SpawnChoices(body) ==
    IF body.kind = "json" /\ ~RejectsPrompt(body) /\ ~SpawnThrows(body.prompt)
    THEN BOOLEAN ELSE {FALSE}

\* A client sends POST /run with one of `bodies` to a container.
ClientPostRun(bodies) ==
    \E c \in ClientContainers, body \in bodies :
      \E mkdirThrows \in MkdirChoices(body), spawnFails \in SpawnChoices(body) :
        LET r == RunHandler(c, body, mkdirThrows, spawnFails)
        IN /\ Len(r.st.recs) <= MaxRecs
           /\ Handle(r)
           /\ UNCHANGED <<now, dataEvents>>
           /\ UNCHANGED workerVars

PostRun == ClientPostRun(ClientBodies)
PostRunFs == ClientPostRun(FsBodies)

\* Task ids a client may ask for.
QueryIds == ClientContainers \cup {GeneratedTaskId(t) : t \in 0..MaxNow}

\* A client sends GET /status/{taskId} to a container.
GetStatus ==
    \E c \in ClientContainers, taskId \in QueryIds :
        /\ Handle(StatusHandler(c, taskId))
        /\ UNCHANGED <<now, dataEvents>>
        /\ UNCHANGED workerVars

\* A process event changed the task object and the child.
ProcessStep(rs, ch) ==
    /\ Commit(tasks, rs, ch, dirs)
    /\ http' = NoExchange
    /\ UNCHANGED <<now, served>>
    /\ UNCHANGED workerVars

\* Mutant of CallbackTask: the callbacks look the record up in the Map when
\* they run (tasks.get(taskId) inside each callback).
CallbackTaskLookedUp(k) ==
    IF child[k].taskId \in DOMAIN tasks[child[k].c]
    THEN tasks[child[k].c][child[k].taskId] ELSE k

\* const task = tasks.get(taskId), evaluated once in the request handler
\* right after tasks.set and spawn: the callbacks of child k hold the object
\* that the same request registered, which is recs[k].
CallbackTask(k) == k

\* The child of recs[k] writes to its standard output.
StdoutOf(k) ==
    \E data \in StdoutChunks :
        /\ child[k].st = "running" /\ ~child[k].spawnFailed
        /\ dataEvents < MaxData
        /\ dataEvents' = dataEvents + 1
        /\ ProcessStep([recs EXCEPT ![CallbackTask(k)] = OnStdout(@, data)], child)
StdoutData == \E k \in DOMAIN recs : StdoutOf(k)

\* The child of recs[k] writes to its standard error.
StderrOf(k) ==
    \E data \in StderrChunks :
        /\ child[k].st = "running" /\ ~child[k].spawnFailed
        /\ dataEvents < MaxData
        /\ dataEvents' = dataEvents + 1
        /\ ProcessStep([recs EXCEPT ![CallbackTask(k)] = OnStderr(@, data)], child)
StderrData == \E k \in DOMAIN recs : StderrOf(k)

\* The 10 minute timer of spawn's timeout option fires and the child is
\* sent the kill signal.
KillTimeout ==
    \E k \in DOMAIN recs :
        /\ child[k].st = "running" /\ ~child[k].spawnFailed /\ ~child[k].signalled
        /\ ProcessStep(recs, [child EXCEPT ![k].signalled = TRUE])
        /\ UNCHANGED dataEvents

\* Node emits 'error' for a child that could not be spawned.
ErrorOf(k) ==
    /\ child[k].st = "running" /\ child[k].spawnFailed /\ ~child[k].errorEmitted
    /\ ProcessStep([recs EXCEPT ![CallbackTask(k)] = OnError(@, SpawnErrorMessage)],
                   [child EXCEPT ![k].errorEmitted = TRUE])
    /\ UNCHANGED dataEvents
ProcError == \E k \in DOMAIN recs : ErrorOf(k)

\* Node emits 'close' once the child has ended and its streams are closed;
\* after a failed spawn, 'close' follows 'error'.
CloseOf(k) ==
    /\ child[k].st = "running"
    /\ child[k].spawnFailed => child[k].errorEmitted
    /\ \E code \in CloseCodes(child[k]) :
        ProcessStep([recs EXCEPT ![CallbackTask(k)] = OnClose(@, code)],
                    [child EXCEPT ![k].st = "closed", ![k].code = code])
    /\ UNCHANGED dataEvents
ProcClose == \E k \in DOMAIN recs : CloseOf(k)

Next ==
    \/ Tick
    \/ PostRun
    \/ GetStatus
    \/ StdoutData
    \/ StderrData
    \/ KillTimeout
    \/ ProcError
    \/ ProcClose

Spec == Init /\ [][Next]_vars

\* The executor with every kind of request body, and the process events
\* that end a task.
NextFs ==
    \/ PostRunFs
    \/ GetStatus
    \/ ProcError
    \/ ProcClose

SpecFs == Init /\ [][NextFs]_vars

\* The same behaviours with the events of every child delivered: a child
\* that was spawned ends, by itself or by the signal of the kill ceiling,
\* and the event loop then runs its 'error' and 'close' callbacks.
SpecFsLive == SpecFs /\ WF_vars(ProcError) /\ WF_vars(ProcClose)


\* ------------------------------------------------- runAgent, step by step
\* Mutant of NoRequest: when the poll loop times out, the task is removed
\* from the container.
NoRequestCancelsOnTimeout ==
    /\ http' = NoExchange
    /\ tasks' = IF \E i \in DOMAIN inv : inv'[i].timedOut /\ ~inv[i].timedOut
                THEN [c \in Containers |-> EmptyMap] ELSE tasks
    /\ UNCHANGED <<recs, child, dirs, served, dataEvents, now, env, sync, dash>>

\* A step of runAgent that sends no request to a container.
NoRequest ==
    /\ http' = NoExchange
    /\ UNCHANGED <<tasks, recs, child, dirs, served, dataEvents, now, env,
                   sync, dash>>

\* The ways a request can fail before it reaches server.js: fetch rejects,
\* or the platform answers with a non-2xx status.
TransportFailures == {"rejects", "non2xx"}

\* Mutant of KnownAgent: every agent id is taken as defined.
KnownAgentAlways(agentId) == TRUE

\* const agent = AGENTS[agentId]; if (!agent) return ...
KnownAgent(agentId) == agentId \in DOMAIN AGENTS

\* runAgent(agentId, env) is called with one of `ids`: agent lookup,
\* startTime, logKey.
StartCall(ids) ==
    \E i \in DOMAIN inv, agentId \in ids :
        /\ inv[i].pc = "idle"
        /\ inv' = [inv EXCEPT ![i] =
                     IF ~KnownAgent(agentId)
                     THEN [@ EXCEPT !.pc = "returned", !.agentId = agentId,
                                    !.ret = Returned(FALSE, "Unknown agent: " \o agentId)]
                     ELSE [@ EXCEPT !.pc = "submit", !.agentId = agentId,
                                    !.startTime = now]]
        /\ NoRequest
        /\ UNCHANGED <<logs, hook>>

RunAgentStart == StartCall(RunAgentIds)

\* The body runAgent posts to /run
SubmitBody(agentId) ==
    [kind |-> "json", prompt |-> PromptStr(FullPrompt(agentId)),
     workdir |-> Null, agentId |-> Some(agentId)]

\* Mutant of AfterSubmit: the first status query is sent at once, the sleep
\* follows the query (a loop that polls before it sleeps).
AfterSubmitPollsAtOnce(call, exchange) ==
    LET sent == [call EXCEPT !.submits = @ + 1]
    IN IF exchange.code = 202
       THEN [sent EXCEPT !.pc = "poll", !.taskId = exchange.payload.taskId]
       ELSE FailedRequest(sent, "submit", "Failed to start task")

\* What runAgent does with the response to POST /run
AfterSubmit(call, exchange) ==
    LET sent == [call EXCEPT !.submits = @ + 1]
    IN IF exchange.code = 202
       THEN [sent EXCEPT !.pc = "sleep", !.taskId = exchange.payload.taskId]
       ELSE FailedRequest(sent, "submit", "Failed to start task")

\* Step 1: POST /run reaches the container of the agent and is answered.
RunAgentSubmit ==
    \E i \in DOMAIN inv :
        /\ inv[i].pc = "submit"
        /\ LET body == SubmitBody(inv[i].agentId)
           IN \E mkdirThrows \in MkdirChoices(body), spawnFails \in SpawnChoices(body) :
                LET r == RunHandler(inv[i].agentId, body, mkdirThrows, spawnFails)
                IN /\ Len(r.st.recs) <= MaxRecs
                   /\ Handle(r)
                   /\ inv' = [inv EXCEPT ![i] =
                                [AfterSubmit(@, r.http) EXCEPT
                                    !.own = IF r.http.code = 202 THEN Len(r.st.recs)
                                            ELSE 0]]
        /\ UNCHANGED <<now, dataEvents, env, logs, hook, sync, dash>>

\* Step 1 fails in transport.
RunAgentSubmitFails ==
    \E i \in DOMAIN inv, failure \in TransportFailures :
        /\ inv[i].pc = "submit"
        /\ inv' = [inv EXCEPT ![i] =
                     FailedRequest([@ EXCEPT !.submits = @ + 1], "submit",
                                   IF failure = "rejects" THEN "Network connection lost"
                                   ELSE "Failed to start task")]
        /\ NoRequest
        /\ UNCHANGED <<logs, hook>>

\* Mutant of LoopHead: the loop has no bound (while (true)).
LoopHeadUnbounded(call) == [call EXCEPT !.pc = "poll", !.attempts = @ + 1]

\* while (attempts < maxAttempts) { await sleep(POLL_INTERVAL_MS); attempts++;
\* ... } throw new Error(`Task timed out after ...`)
LoopHead(call) ==
    IF call.attempts < maxAttempts
    THEN [call EXCEPT !.pc = "poll", !.attempts = @ + 1]
    ELSE [Throw(call, TimeoutMessage) EXCEPT !.timedOut = TRUE]

RunAgentSleep ==
    \E i \in DOMAIN inv :
        /\ inv[i].pc = "sleep"
        /\ inv' = [inv EXCEPT ![i] = LoopHead(@)]
        /\ NoRequest
        /\ UNCHANGED <<logs, hook>>

\* The fields of a status payload that runAgent reads
Observed(p) ==
    [status |-> p.status, exitCode |-> p.exitCode, result |-> p.result,
     stderr |-> p.stderr, error |-> p.error]

\* What runAgent does with the response to GET /status/{taskId}
AfterStatus(call, exchange) ==
    LET p == exchange.payload
        counted == [call EXCEPT !.queries = @ + 1]
    IN IF exchange.code # 200
       THEN FailedRequest(counted, "status", "Failed to get task status")
       ELSE IF IsTerminal(p.status) THEN
            LET seen == [counted EXCEPT !.seen = p.status,
                                        !.seenError = TruthyOpt(p.error),
                                        !.observed = Some(Observed(p))]
            IN IF Terminal(p).thrown THEN Throw(seen, Terminal(p).text)
               ELSE [seen EXCEPT !.pc = "putOk", !.text = Terminal(p).text]
       ELSE [counted EXCEPT !.pc = "sleep", !.running = @ + 1]

\* Step 2: a status query reaches the container and is answered.
RunAgentPoll ==
    \E i \in DOMAIN inv :
        /\ inv[i].pc = "poll"
        /\ LET r == StatusHandler(inv[i].agentId, inv[i].taskId)
           IN /\ Handle(r)
              /\ inv' = [inv EXCEPT ![i] = AfterStatus(@, r.http)]
        /\ UNCHANGED <<now, dataEvents, env, logs, hook, sync, dash>>

\* A status query fails in transport.
RunAgentPollFails ==
    \E i \in DOMAIN inv, failure \in TransportFailures :
        /\ inv[i].pc = "poll"
        /\ inv' = [inv EXCEPT ![i] =
                     FailedRequest([@ EXCEPT !.queries = @ + 1], "status",
                                   IF failure = "rejects" THEN "Network connection lost"
                                   ELSE "Failed to get task status")]
        /\ NoRequest
        /\ UNCHANGED <<logs, hook>>

\* After the success log is stored: notify if a webhook is configured,
\* else return { success: true, output }.
AfterSuccessLog(call) ==
    IF env.slack THEN [call EXCEPT !.pc = "notifyOk"]
    ELSE [call EXCEPT !.pc = "returned", !.ret = Returned(TRUE, call.text)]

\* The success path stores the log entry; the put may reject.
RunAgentLogSuccess ==
    \E i \in DOMAIN inv, ok \in BOOLEAN :
        /\ inv[i].pc = "putOk"
        /\ IF ok
           THEN /\ logs' = PutSuccessLog(logs, LogKey(inv[i].agentId, inv[i].startTime),
                                         LogEntry(inv[i], TRUE))
                /\ inv' = [inv EXCEPT ![i] = AfterSuccessLog(@)]
           ELSE /\ logs' = logs
                /\ inv' = [inv EXCEPT ![i] =
                             Throw([@ EXCEPT !.putFailed = TRUE], "KV put failed")]
        /\ NoRequest
        /\ UNCHANGED hook

\* The success path notifies the webhook; the fetch may reject, and the
\* rejection is caught by the catch block of runAgent.
RunAgentNotifySuccess ==
    \E i \in DOMAIN inv, ok \in BOOLEAN :
        /\ inv[i].pc = "notifyOk"
        /\ IF ok
           THEN /\ hook' = hook \cup {Notification(inv[i], TRUE)}
                /\ inv' = [inv EXCEPT ![i] =
                             [@ EXCEPT !.pc = "returned", !.ret = Returned(TRUE, inv[i].text)]]
           ELSE /\ hook' = hook
                /\ inv' = [inv EXCEPT ![i] =
                             Throw([@ EXCEPT !.notifyFailed = TRUE], "fetch failed")]
        /\ NoRequest
        /\ UNCHANGED logs

\* After the error log is stored: notify if a webhook is configured, else
\* return { success: false, error }.
AfterErrorLog(call) ==
    IF env.slack THEN [call EXCEPT !.pc = "notifyErr"]
    ELSE [call EXCEPT !.pc = "returned", !.ret = Returned(FALSE, call.text)]

\* The catch block stores the error log entry; if the put rejects, runAgent
\* rejects.
RunAgentLogError ==
    \E i \in DOMAIN inv, ok \in BOOLEAN :
        /\ inv[i].pc = "putErr"
        /\ IF ok
           THEN /\ logs' = PutErrorLog(logs, LogKey(inv[i].agentId, inv[i].startTime),
                                       LogEntry(inv[i], FALSE))
                /\ inv' = [inv EXCEPT ![i] = AfterErrorLog(@)]
           ELSE /\ logs' = logs
                /\ inv' = [inv EXCEPT ![i] = [@ EXCEPT !.pc = "thrown", !.putFailed = TRUE]]
        /\ NoRequest
        /\ UNCHANGED hook

\* The catch block notifies the webhook; if the fetch rejects, runAgent
\* rejects.
RunAgentNotifyError ==
    \E i \in DOMAIN inv, ok \in BOOLEAN :
        /\ inv[i].pc = "notifyErr"
        /\ IF ok
           THEN /\ hook' = hook \cup {Notification(inv[i], FALSE)}
                /\ inv' = [inv EXCEPT ![i] =
                             [@ EXCEPT !.pc = "returned", !.ret = Returned(FALSE, inv[i].text)]]
           ELSE /\ hook' = hook
                /\ inv' = [inv EXCEPT ![i] = [@ EXCEPT !.pc = "thrown", !.notifyFailed = TRUE]]
        /\ NoRequest
        /\ UNCHANGED logs

\* The Worker with its containers: runAgent calls and the processes they
\* start.
InitRun ==
    /\ tasks = [c \in Containers |-> EmptyMap]
    /\ recs = <<>>
    /\ child = <<>>
    /\ dirs = {WORKSPACE}
    /\ now = 0
    /\ http = NoExchange
    /\ served = <<>>
    /\ dataEvents = 0
    /\ env \in [slack : BOOLEAN]
    /\ inv = [i \in Invs |-> IdleCall]
    /\ logs = EmptyMap
    /\ hook = {}
    /\ sync = <<>>
    /\ dash = IdleDash

NextRun ==
    \/ RunAgentStart
    \/ RunAgentSubmit
    \/ RunAgentSubmitFails
    \/ RunAgentSleep
    \/ RunAgentPoll
    \/ RunAgentPollFails
    \/ RunAgentLogSuccess
    \/ RunAgentNotifySuccess
    \/ RunAgentLogError
    \/ RunAgentNotifyError
    \/ Tick
    \/ StdoutData
    \/ StderrData
    \/ KillTimeout
    \/ ProcError
    \/ ProcClose

SpecRun == InitRun /\ [][NextRun]_vars

\* ------------------- runAgent against a container whose answers are inputs
\* The values the result field of a status response can hold: absent, a
\* string, or an object with or without the fields raw and result.
StatusResults ==
    {Null}
    \cup {Some(JsonString(str)) : str \in {"", "text"}}
    \cup {Some(JsonObject(raw, result)) :
              raw \in {Null, Some(""), Some("rawtext")},
              result \in {Null, Some(""), Some("hello")}}

\* The completed and failed status responses runAgent may receive.
TerminalPayloads ==
    [kind : {"status"}, taskId : {"pentest"}, status : {"completed", "failed"},
     startTime : {0}, endTime : {Some(0)}, exitCode : {Null, Some(0), Some(1)},
     result : StatusResults, stderr : {Null, Some("warn")},
     error : {Null, Some("boom")}]

\* The terminal responses without result and stderr.
EndingPayloads == {p \in TerminalPayloads : p.result = Null /\ p.stderr = Null}

\* The response for a task that is still running.
RunningPayload(taskId) == Snapshot(taskId, NewTask(WORKSPACE))

\* A step of runAgent in which the container answered with `exchange`.
Answered(exchange) ==
    /\ http' = exchange
    /\ UNCHANGED <<tasks, recs, child, dirs, served, dataEvents, now, env, logs,
                   hook, sync, dash>>

\* Step 1: the container accepts the task.
SubmitAnswered ==
    \E i \in DOMAIN inv :
        /\ inv[i].pc = "submit"
        /\ LET exchange == Exchange("run", inv[i].agentId, Some(inv[i].agentId),
                                    PromptStr(FullPrompt(inv[i].agentId)), 202,
                                    StartedPayload(inv[i].agentId))
           IN /\ inv' = [inv EXCEPT ![i] = AfterSubmit(@, exchange)]
              /\ Answered(exchange)

\* Step 2: the container answers a status query, with the task running or
\* with one of the payloads `terminal`.
PollAnsweredFrom(terminal) ==
    \E i \in DOMAIN inv :
        /\ inv[i].pc = "poll"
        /\ \E p \in terminal \cup {RunningPayload(inv[i].taskId)} :
             LET exchange == Exchange("status", inv[i].agentId, Some(inv[i].taskId),
                                      PromptMissing, 200, p)
             IN /\ inv' = [inv EXCEPT ![i] = AfterStatus(@, exchange)]
                /\ Answered(exchange)

PollAnswered == PollAnsweredFrom(TerminalPayloads)

NextPoll ==
    \/ RunAgentStart
    \/ SubmitAnswered
    \/ RunAgentSubmitFails
    \/ RunAgentSleep
    \/ PollAnswered
    \/ RunAgentPollFails
    \/ RunAgentLogSuccess
    \/ RunAgentNotifySuccess
    \/ RunAgentLogError
    \/ RunAgentNotifyError

SpecPoll == InitRun /\ [][NextPoll]_vars

\* The steps of a call after it was made.  Each of them is the settling of
\* one await (a request that returns or fails, or the sleep timer), so a
\* call that waits at an await is continued.
CallStep ==
    \/ SubmitAnswered
    \/ RunAgentSubmitFails
    \/ RunAgentSleep
    \/ PollAnsweredFrom(EndingPayloads)
    \/ RunAgentPollFails
    \/ RunAgentLogSuccess
    \/ RunAgentNotifySuccess
    \/ RunAgentLogError
    \/ RunAgentNotifyError

\* A call is made and continued.  (Whether a call ends does not depend on
\* the result and stderr fields of the answers, so one value of each is
\* followed.)
NextPollLive == RunAgentStart \/ CallStep

SpecPollLive == InitRun /\ [][NextPollLive]_vars /\ WF_vars(CallStep)

\* ---------------------------------------- two runAgent calls at one time
\* Two invocations of runAgent, for the same or for different agents, whose
\* awaits interleave (two requests to the Worker, or two agents started by
\* one scheduled event).  Both run within one millisecond of Date.now().
Pair == {1, 2}
PairAgentIds == {"pentest", "bughunter"}

InitPair ==
    /\ tasks = [c \in Containers |-> EmptyMap]
    /\ recs = <<>>
    /\ child = <<>>
    /\ dirs = {WORKSPACE}
    /\ now = 0
    /\ http = NoExchange
    /\ served = <<>>
    /\ dataEvents = 0
    /\ env = [slack |-> FALSE]
    /\ inv = [i \in Pair |-> IdleCall]
    /\ logs = EmptyMap
    /\ hook = {}
    /\ sync = <<>>
    /\ dash = IdleDash

PairStart == StartCall(PairAgentIds)

\* The poll loop, followed for the first MaxPolls iterations of each call.
PairSleep ==
    /\ RunAgentSleep
    /\ \A i \in DOMAIN inv : inv'[i].attempts <= MaxPolls

NextPair ==
    \/ PairStart
    \/ RunAgentSubmit
    \/ PairSleep
    \/ RunAgentPoll
    \/ RunAgentLogSuccess
    \/ RunAgentLogError
    \/ ProcError
    \/ ProcClose

SpecPair == InitPair /\ [][NextPair]_vars

\* ------------------------------------------------- the scheduled trigger
\* event.scheduledTime, in milliseconds since 1970-01-01T00:00Z: every full
\* hour of one week.  The event is handled at its scheduled time.
ScheduledTimes == {h * 3600000 : h \in 0..(7 * 24 - 1)}

\* new Date(t).getUTCHours() and new Date(t).getUTCDay() (0 is Sunday;
\* 1970-01-01 was a Thursday)
UTCHours(t) == (t \div 3600000) % 24
UTCDay(t) == (4 + (t \div 86400000)) % 7

\* Mutant of ToRun: kpi is started at 9 on every day.
ToRunKpiDaily(hour, day) ==
    (IF hour = 9 THEN <<"kpi">> ELSE <<>>)
    \o (IF hour = 9 THEN <<"pentest">> ELSE <<>>)
    \o (IF hour = 10 THEN <<"bughunter">> ELSE <<>>)
    \o (IF hour = 11 /\ day = 1 THEN <<"datainsights">> ELSE <<>>)
    \o (IF hour = 12 /\ day = 1 THEN <<"feedback">> ELSE <<>>)
    \o (IF hour = 14 /\ day = 5 THEN <<"investor">> ELSE <<>>)

\* The list toRun after the six if statements
ToRun(hour, day) ==
    (IF hour = 9 /\ day = 1 THEN <<"kpi">> ELSE <<>>)
    \o (IF hour = 9 THEN <<"pentest">> ELSE <<>>)
    \o (IF hour = 10 THEN <<"bughunter">> ELSE <<>>)
    \o (IF hour = 11 /\ day = 1 THEN <<"datainsights">> ELSE <<>>)
    \o (IF hour = 12 /\ day = 1 THEN <<"feedback">> ELSE <<>>)
    \o (IF hour = 14 /\ day = 5 THEN <<"investor">> ELSE <<>>)

\* runAgent(agentId, env) up to its first await: the call is in flight
InFlight(agentId) ==
    IF ~KnownAgent(agentId)
    THEN [IdleCall EXCEPT !.pc = "returned", !.agentId = agentId,
                          !.ret = Returned(FALSE, "Unknown agent: " \o agentId)]
    ELSE [IdleCall EXCEPT !.pc = "submit", !.agentId = agentId, !.startTime = now]

InitCron ==
    /\ tasks = [c \in Containers |-> EmptyMap]
    /\ recs = <<>>
    /\ child = <<>>
    /\ dirs = {WORKSPACE}
    /\ now \in ScheduledTimes
    /\ http = NoExchange
    /\ served = <<>>
    /\ dataEvents = 0
    /\ env \in [slack : BOOLEAN]
    /\ inv = <<>>
    /\ logs = EmptyMap
    /\ hook = {}
    /\ sync = <<>>
    /\ dash = IdleDash

\* scheduled(event, env, ctx): for (const agentId of toRun)
\* ctx.waitUntil(runAgent(agentId, env)); the handler returns with every
\* call it started in flight.
Scheduled ==
    /\ inv = <<>>
    /\ LET toRun == ToRun(UTCHours(now), UTCDay(now))
       IN inv' = [i \in DOMAIN toRun |-> InFlight(toRun[i])]
    /\ NoRequest
    /\ UNCHANGED <<logs, hook>>

NextCron == Scheduled

SpecCron == InitCron /\ [][NextCron]_vars

\* The schedule column of the dashboard's agent table: minute 0 of `hour`,
\* on the weekday `dow` of cron (1 is Monday) or on every day.
CronTable ==
    {[key |-> "pentest", hour |-> 9, dow |-> Null],
     [key |-> "bughunter", hour |-> 10, dow |-> Null],
     [key |-> "datainsights", hour |-> 11, dow |-> Some(1)],
     [key |-> "feedback", hour |-> 12, dow |-> Some(1)],
     [key |-> "investor", hour |-> 14, dow |-> Some(5)],
     [key |-> "kpi", hour |-> 9, dow |-> Some(1)]}

\* ------------------------------------------------------------ getAgentLogs
\* A request to one of the Worker's own routes and its response; the agent
\* id of the path is kept in taskId.
WorkerExchange(op, agentId, code, payload) ==
    Exchange(op, "pentest", Some(agentId), PromptMissing, code, payload)

\* Start times of the runs in the store.  Date.now() has thirteen digits
\* in every year from 2001 to 2286; these stand for them with four.
LogTimes == 1000..(1000 + MaxLogs)
LogAgents == {"pentest", "bughunter"}
\* /^\/api\/agents\/(\w+)\/logs$/: any word is accepted as agent id
LogQueryIds == LogAgents \cup {"nobody"}

\* The runs whose entries a store can hold: any of pentest, and the first
\* two of bughunter.
StoredRuns ==
    ({"pentest"} \X LogTimes) \cup ({"bughunter"} \X {1000, 1001})

\* The entry runAgent stored for the run of `agentId` started at `t`
\* (every second run failed).
StoredEntry(agentId, t) ==
    [agentId |-> agentId, agentName |-> AGENTS[agentId],
     timestamp |-> t, duration |-> DurationText(0),
     text |-> "run " \o LogKey(agentId, t), success |-> (t % 2 = 0)]

\* The store holding the entries of the runs in `runs`
StoreOf(runs) ==
    [k \in {LogKey(p[1], p[2]) : p \in runs} |->
        LET p == CHOOSE q \in runs : LogKey(q[1], q[2]) = k
        IN StoredEntry(p[1], p[2])]

\* The decimal digits of a number, and the order of two digit strings by
\* their characters (the order in which KV lists keys)
RECURSIVE Digits(_)
Digits(n) == IF n < 10 THEN <<n>> ELSE Digits(n \div 10) \o <<n % 10>>
RECURSIVE LexLess(_, _)
LexLess(a, b) ==
    IF a = <<>> THEN b # <<>>
    ELSE IF b = <<>> THEN FALSE
    ELSE IF Head(a) # Head(b) THEN Head(a) < Head(b)
    ELSE LexLess(Tail(a), Tail(b))

\* env.AGENT_LOGS.list({ prefix: `${agentId}:` }): the names of the keys
\* that start with the prefix, in the order of their characters
RECURSIVE KeyOrder(_)
KeyOrder(times) ==
    IF times = {} THEN <<>>
    ELSE LET first == CHOOSE t \in times :
                        \A u \in times \ {t} : LexLess(Digits(t), Digits(u))
         IN <<first>> \o KeyOrder(times \ {first})
List(store, agentId) ==
    LET order == KeyOrder({t \in LogTimes : LogKey(agentId, t) \in DOMAIN store})
    IN [i \in DOMAIN order |-> LogKey(agentId, order[i])]

\* Mutant of SliceLast: the first n elements.
SliceFirst(seq, n) == IF Len(seq) <= n THEN seq ELSE SubSeq(seq, 1, n)

\* seq.slice(-n)
SliceLast(seq, n) ==
    IF Len(seq) <= n THEN seq ELSE SubSeq(seq, Len(seq) - n + 1, Len(seq))

\* `[${parsed.timestamp}] ${mark} Duration: ${parsed.duration}\n${text}`
Render(entry) ==
    [timestamp |-> entry.timestamp, success |-> entry.success,
     duration |-> entry.duration, text |-> entry.text]

\* getAgentLogs(agentId, env).  The text it returns is either the
\* sentinel "No logs found" or the rendered entries joined by the
\* separator; the parts are kept apart here.
GetAgentLogs(store, agentId) ==
    LET keys == List(store, agentId)
        recentKeys == SliceLast(keys, 5)
        read == SelectSeq(recentKeys, LAMBDA k : k \in DOMAIN store)
    IN IF Len(keys) = 0
       THEN [sentinel |-> TRUE, parts |-> <<>>]
       ELSE [sentinel |-> FALSE,
             parts |-> [i \in DOMAIN read |-> Render(store[read[i]])]]

InitLogs ==
    /\ tasks = [c \in Containers |-> EmptyMap]
    /\ recs = <<>>
    /\ child = <<>>
    /\ dirs = {WORKSPACE}
    /\ now = 0
    /\ http = NoExchange
    /\ served = <<>>
    /\ dataEvents = 0
    /\ env = [slack |-> FALSE]
    /\ inv = <<>>
    /\ logs \in {StoreOf(runs) : runs \in SUBSET StoredRuns}
    /\ hook = {}
    /\ sync = <<>>
    /\ dash = IdleDash

\* GET /api/agents/{agentId}/logs
GetLogs ==
    \E agentId \in LogQueryIds :
        /\ http' = WorkerExchange("logs", agentId, 200,
                                  [kind |-> "logs",
                                   logs |-> GetAgentLogs(logs, agentId)])
        /\ UNCHANGED <<tasks, recs, child, dirs, now, served, dataEvents,
                       env, inv, logs, hook, sync, dash>>

NextLogs == GetLogs

SpecLogs == InitLogs /\ [][NextLogs]_vars

\* ------------------------------------------- /health, /tasks and the probe
\* The GET /health (or /ping) handler of container c
HealthHandler(c) ==
    [st |-> [tasks |-> tasks, recs |-> recs, child |-> child, dirs |-> dirs,
             served |-> served],
     http |-> Exchange("health", c, Null, PromptMissing, 200,
                       [kind |-> "health", status |-> "ok",
                        workspace |-> WORKSPACE,
                        tasks |-> Cardinality(DOMAIN tasks[c])])]

\* Mutant of TaskList: only the running tasks are listed.
TaskListRunningOnly(m) ==
    {[taskId |-> id, status |-> recs[m[id]].status,
      startTime |-> recs[m[id]].startTime,
      elapsed |-> now - recs[m[id]].startTime] :
        id \in {x \in DOMAIN m : recs[m[x]].status = "running"}}

\* for (const [id, task] of tasks) taskList.push({...}).  (The order of the
\* list, the insertion order of the Map, is not kept.)
TaskList(m) ==
    {[taskId |-> id, status |-> recs[m[id]].status,
      startTime |-> recs[m[id]].startTime,
      elapsed |-> now - recs[m[id]].startTime] : id \in DOMAIN m}

\* The GET /tasks handler of container c
TasksHandler(c) ==
    [st |-> [tasks |-> tasks, recs |-> recs, child |-> child, dirs |-> dirs,
             served |-> served],
     http |-> Exchange("tasks", c, Null, PromptMissing, 200,
                       [kind |-> "tasks", tasks |-> TaskList(tasks[c])])]

\* A client sends GET /health to a container.
GetHealth ==
    \E c \in ClientContainers :
        /\ Handle(HealthHandler(c))
        /\ UNCHANGED <<now, dataEvents>>
        /\ UNCHANGED workerVars

\* A client sends GET /tasks to a container.
GetTasks ==
    \E c \in ClientContainers :
        /\ Handle(TasksHandler(c))
        /\ UNCHANGED <<now, dataEvents>>
        /\ UNCHANGED workerVars

\* What can happen to the probe's request to the container: it is
\* answered by server.js, the fetch rejects (cold start, timeout), or the
\* platform answers with a body that is not JSON.
ProbeOutcomes == {"answered", "rejects", "notJson"}

\* Mutant of WarmResponse: a failed health request fails the probe.
WarmResponseThrows(agentId, outcome, health) ==
    IF outcome = "answered"
    THEN WorkerExchange("warm", agentId, 200,
                        [kind |-> "warm", status |-> "warm",
                         container |-> Some(health.payload.status)])
    ELSE WorkerExchange("warm", agentId, 500, ErrorPayload)

\* The try/catch of the warm route: the Worker's response
WarmResponse(agentId, outcome, health) ==
    IF outcome = "answered"
    THEN WorkerExchange("warm", agentId, 200,
                        [kind |-> "warm", status |-> "warm",
                         container |-> Some(health.payload.status)])
    ELSE WorkerExchange("warm", agentId, 200,
                        [kind |-> "warm", status |-> "warming",
                         container |-> Null])

\* POST /api/agents/{agentId}/warm
Warm ==
    \E agentId \in ClientContainers, outcome \in ProbeOutcomes :
        LET r == HealthHandler(agentId)
        IN /\ IF outcome = "rejects"
              THEN UNCHANGED <<tasks, recs, child, dirs, served>>
              ELSE /\ Commit(r.st.tasks, r.st.recs, r.st.child, r.st.dirs)
                   /\ served' = r.st.served
           /\ http' = WarmResponse(agentId, outcome, r.http)
           /\ UNCHANGED <<now, dataEvents>>
           /\ UNCHANGED workerVars

NextProbe ==
    \/ PostRun
    \/ GetStatus
    \/ ProcError
    \/ ProcClose
    \/ GetHealth
    \/ GetTasks
    \/ Warm

SpecProbe == Init /\ [][NextProbe]_vars

\* ------------------------------------------------- the dashboard's Run
\* The agents of the page's table whose Run button is pressed
DashKeys == {"pentest", "bughunter"}

\* How the promise of the warm request settles
WarmEnds == {"resolved", "rejected"}

\* How a run request ends for doRun: the response has success true; it has
\* an error text that contains 'blockConcurrencyWhile' (the container was
\* still starting); it has another error text; or the promise rejects
\* (fetch fails, or the body is not JSON, as when the Worker threw).
RunAnswers == {"success", "initializing", "failed", "rejected"}

\* doRun(key, retryCount): the run request is sent
DoRun(d, retryCount) ==
    [d EXCEPT !.pc = "running", !.retryCount = retryCount,
              !.requests = @ + 1, !.delay = 0]

\* The then and catch callbacks of doRun
AfterRun(d, answer) ==
    LET seen == [d EXCEPT !.answers = Append(@, answer)]
    IN IF answer = "success"
       THEN [seen EXCEPT !.pc = "done", !.status = "idle"]
       ELSE IF answer = "initializing" /\ d.retryCount < 3
       THEN [seen EXCEPT !.pc = "waiting", !.delay = 10000]
       ELSE IF answer = "rejected" /\ d.retryCount < 3
       THEN [seen EXCEPT !.pc = "waiting", !.delay = 10000]
       ELSE [seen EXCEPT !.pc = "done", !.status = "error"]

\* A step of the page: nothing but the page changes.
DashStep(d) ==
    /\ dash' = d
    /\ http' = NoExchange
    /\ UNCHANGED <<tasks, recs, child, dirs, now, served, dataEvents,
                   env, inv, logs, hook, sync>>

\* runAgent(key, 0) of the page: the warm request is sent
DashClick ==
    \E key \in DashKeys :
        /\ dash.pc = "idle"
        /\ DashStep([dash EXCEPT !.pc = "warming", !.key = key,
                                  !.status = "running"])

\* The warm request settles; either way doRun(key, 0) is called
DashWarmed ==
    \E end \in WarmEnds :
        /\ dash.pc = "warming"
        /\ DashStep(DoRun([dash EXCEPT !.warm = end], 0))

\* The run request settles
DashAnswer ==
    \E answer \in RunAnswers :
        /\ dash.pc = "running"
        /\ DashStep(AfterRun(dash, answer))

\* The timer set by setTimeout(..., 10000) fires
DashTimer ==
    /\ dash.pc = "waiting"
    /\ DashStep(DoRun(dash, dash.retryCount + 1))

NextDash ==
    \/ DashClick
    \/ DashWarmed
    \/ DashAnswer
    \/ DashTimer

SpecDash == Init /\ [][NextDash]_vars

\* ---------------------------------------------------------- POST /run-sync
\* The bodies clients send to /run-sync (it reads prompt, workdir, apiKey).
SyncBodies == {MalformedBody} \cup JsonBodies(PromptInputs, Workdirs, {})

\* The locals of a /run-sync request that has spawned its child: the child,
\* the output collected so far, and the response once it has been written.
NewSync(c, body, spawnFails) ==
    [c |-> c, prompt |-> body.prompt, cwd |-> ChooseCwd(body),
     child |-> NewChild(spawnFails), stdout |-> "", stderr |-> "",
     res |-> Null, writeHeads |-> 0]

\* The whole req.on('end') callback of POST /run-sync: the directories and
\* requests it leaves, and the response it writes (none when the child was
\* spawned: the response is then written by a callback of the child).
RunSyncHandler(c, body, mkdirThrows, spawnFails) ==
    LET cwd == ChooseCwd(body)
        refused == Exchange("run-sync", c, Null, body.prompt, 400, ErrorPayload)
    IN
    IF body.kind = "malformed" THEN
        [dirs |-> dirs, sync |-> sync, http |-> refused]
    ELSE IF Falsy(body.prompt) THEN
        [dirs |-> dirs, sync |-> sync, http |-> refused]
    ELSE IF cwd \notin dirs /\ mkdirThrows THEN
        [dirs |-> dirs, sync |-> sync, http |-> refused]
    ELSE IF SpawnThrows(body.prompt) THEN
        [dirs |-> dirs \cup {cwd}, sync |-> sync, http |-> refused]
    ELSE
        [dirs |-> dirs \cup {cwd},
         sync |-> Append(sync, NewSync(c, body, spawnFails)),
         http |-> NoExchange]

\* The response of the 'close' callback
SyncOutcome(rq, code) ==
    Exchange("run-sync", rq.c, Null, rq.prompt, 200,
             [kind |-> "outcome", exitCode |-> code,
              result |-> ParseResult(rq.stdout),
              stderr |-> OrUndefined(rq.stderr), workdir |-> rq.cwd])

\* The response of the 'error' callback
SyncFailure(rq) ==
    Exchange("run-sync", rq.c, Null, rq.prompt, 500, ErrorPayload)

\* rq.writeHeads counts the callbacks of the request's child that called
\* res.writeHead on the response of the request.

\* A client sends POST /run-sync to a container.
PostRunSync ==
    \E c \in ClientContainers, body \in SyncBodies :
      \E mkdirThrows \in IF body.kind = "json" /\ ~Falsy(body.prompt)
                             /\ ChooseCwd(body) \notin dirs
                          THEN BOOLEAN ELSE {FALSE},
         spawnFails \in IF body.kind = "json" /\ ~Falsy(body.prompt)
                            /\ ~SpawnThrows(body.prompt)
                         THEN BOOLEAN ELSE {FALSE} :
        LET r == RunSyncHandler(c, body, mkdirThrows, spawnFails)
        IN /\ Len(r.sync) <= MaxSync
           /\ Commit(tasks, recs, child, r.dirs)
           /\ sync' = r.sync
           /\ http' = r.http
           /\ UNCHANGED <<now, served, dataEvents, env, inv, logs, hook, dash>>

\* A callback of the child of a /run-sync request ran: the request's
\* locals are now rq and `written` is the response the callback wrote.
SyncStep(k, rq, written) ==
    /\ sync' = [sync EXCEPT ![k] = rq]
    /\ http' = written
    /\ UNCHANGED <<tasks, recs, child, dirs, now, served, env, inv, logs,
                   hook, dash>>

\* claude.stdout.on('data', data => stdout += data)
SyncStdout ==
    \E k \in DOMAIN sync, data \in StdoutChunks :
        /\ sync[k].child.st = "running" /\ ~sync[k].child.spawnFailed
        /\ dataEvents < MaxData
        /\ dataEvents' = dataEvents + 1
        /\ SyncStep(k, [sync[k] EXCEPT !.stdout = @ \o data], NoExchange)

\* claude.stderr.on('data', data => stderr += data)
SyncStderr ==
    \E k \in DOMAIN sync, data \in StderrChunks :
        /\ sync[k].child.st = "running" /\ ~sync[k].child.spawnFailed
        /\ dataEvents < MaxData
        /\ dataEvents' = dataEvents + 1
        /\ SyncStep(k, [sync[k] EXCEPT !.stderr = @ \o data], NoExchange)

\* The 5 minute timer of spawn's timeout option fires.
SyncKillTimeout ==
    \E k \in DOMAIN sync :
        /\ sync[k].child.st = "running" /\ ~sync[k].child.spawnFailed
        /\ ~sync[k].child.signalled
        /\ SyncStep(k, [sync[k] EXCEPT !.child.signalled = TRUE], NoExchange)
        /\ UNCHANGED dataEvents

\* claude.on('error', ...) of /run-sync: the child could not be spawned and
\* the callback answers 500.
SyncError ==
    \E k \in DOMAIN sync :
        /\ sync[k].child.st = "running" /\ sync[k].child.spawnFailed
        /\ ~sync[k].child.errorEmitted
        /\ SyncStep(k, [sync[k] EXCEPT !.child.errorEmitted = TRUE,
                                       !.writeHeads = @ + 1,
                                       !.res = Some(SyncFailure(sync[k]))],
                    SyncFailure(sync[k]))
        /\ UNCHANGED dataEvents

\* claude.on('close', ...) of /run-sync while no response has been
\* written: the callback answers 200 with the outcome.
SyncClose ==
    \E k \in DOMAIN sync :
        /\ sync[k].child.st = "running"
        /\ ~sync[k].child.spawnFailed
        /\ sync[k].res = Null
        /\ \E code \in CloseCodes(sync[k].child) :
              SyncStep(k, [sync[k] EXCEPT !.child.st = "closed", !.child.code = code,
                                         !.writeHeads = @ + 1,
                                         !.res = Some(SyncOutcome(sync[k], code))],
                       SyncOutcome(sync[k], code))
        /\ UNCHANGED dataEvents

\* claude.on('close', ...) of /run-sync after the 'error' callback has
\* answered: res.writeHead throws because the headers were sent, nothing
\* catches the exception thrown in the listener, and Node ends the server
\* process.  The Map, the task objects, the listeners of every child and
\* the open requests are lost with it; the server started next begins
\* with an empty Map.  (All records here belong to the one container.)
SyncCloseAfterError ==
    \E k \in DOMAIN sync :
        /\ sync[k].child.st = "running"
        /\ sync[k].child.spawnFailed /\ sync[k].child.errorEmitted
        /\ IsSet(sync[k].res)
        /\ tasks' = [tasks EXCEPT ![sync[k].c] = EmptyMap]
        /\ recs' = [j \in DOMAIN recs |-> GoneTask]
        /\ child' = [j \in DOMAIN child |-> GoneChild]
        /\ sync' = [j \in DOMAIN sync |->
                      [sync[j] EXCEPT !.child.st = "gone",
                                      !.writeHeads = IF j = k THEN @ + 1 ELSE @,
                                      !.child.code = IF j = k THEN Some(ENOENT) ELSE @]]
        /\ http' = NoExchange
        /\ UNCHANGED <<dirs, now, served, dataEvents, env, inv, logs, hook, dash>>

NextSync ==
    \/ PostRun
    \/ ProcError
    \/ ProcClose
    \/ PostRunSync
    \/ SyncStdout
    \/ SyncStderr
    \/ SyncKillTimeout
    \/ SyncError
    \/ SyncClose
    \/ SyncCloseAfterError

SpecSync == Init /\ [][NextSync]_vars

\* ------------------------------------------------ notifying long outputs
\* A text of n characters
RECURSIVE Repeat(_, _)
Repeat(str, n) ==
    IF n = 0 THEN ""
    ELSE IF n % 2 = 0 THEN LET half == Repeat(str, n \div 2) IN half \o half
    ELSE str \o Repeat(str, n - 1)
OutputOfLength(n) == Slice(Repeat("0123456789", (n \div 10) + 1), n)

\* A runAgent call for pentest whose output (success) or error text has n
\* characters, after its log entry is stored and before it notifies
Notifying(success, n) ==
    [IdleCall EXCEPT !.pc = IF success THEN "notifyOk" ELSE "notifyErr",
                     !.agentId = "pentest", !.taskId = "pentest",
                     !.attempts = 1, !.queries = 1, !.own = 1,
                     !.seen = IF success THEN "completed" ELSE "failed",
                     !.text = OutputOfLength(n)]

InitNotify ==
    /\ tasks = [c \in Containers |-> EmptyMap]
    /\ recs = <<GoneTask>>
    /\ child = <<GoneChild>>
    /\ dirs = {WORKSPACE}
    /\ now = 0
    /\ http = NoExchange
    /\ served = <<1>>
    /\ dataEvents = 0
    /\ env = [slack |-> TRUE]
    /\ \E success \in BOOLEAN, n \in 0..MaxMessage :
          /\ inv = [i \in Invs |-> Notifying(success, n)]
          /\ logs = MapSet(EmptyMap, LogKey("pentest", 0),
                           LogEntry(Notifying(success, n), success))
    /\ hook = {}
    /\ sync = <<>>
    /\ dash = IdleDash

NextNotify ==
    \/ RunAgentNotifySuccess
    \/ RunAgentLogError
    \/ RunAgentNotifyError

SpecNotify == InitNotify /\ [][NextNotify]_vars

\* ------------------------------------------------- the store and its users
\* Every route of the server and the callbacks of the children of both
\* kinds of request, on one container.
NextStore ==
    \/ PostRun
    \/ GetStatus
    \/ GetTasks
    \/ GetHealth
    \/ ProcError
    \/ ProcClose
    \/ PostRunSync
    \/ SyncError
    \/ SyncClose
    \/ SyncCloseAfterError

SpecStore == Init /\ [][NextStore]_vars

\* ======================================================== executor claims

\* C1: a status query that serves a completed or failed record removes the
\* record from the store in the same step, and no record's terminal snapshot
\* is ever served twice.
C1_AtMostOnceDelivery ==
    /\ (http.op = "status" /\ http.code = 200 /\ IsTerminal(http.payload.status))
          => Val(http.taskId) \notin DOMAIN tasks[http.c]
    /\ \A k \in DOMAIN served : served[k] <= 1
\* A terminal snapshot has just been served.
C1_Witness ==
    http.op = "status" /\ http.code = 200 /\ IsTerminal(http.payload.status)

\* C2: no step replaces or removes the store entry of a record that is
\* still running and is registered under a supplied agent id; in particular
\* a POST /run with that agentId leaves the entry in place.
C2_RunningRecordKept ==
    [][\A c \in Containers : \A id \in (DOMAIN tasks[c]) \cap Containers :
          recs[tasks[c][id]].status = "running"
             => id \in DOMAIN tasks'[c] /\ tasks'[c][id] = tasks[c][id]]_vars

\* C3: the status of a task object changes only from running to completed
\* or failed; a completed or failed object keeps its status under every
\* later process event (until the object is garbage).
C3_StatusNeverRegresses ==
    [][\A k \in DOMAIN recs :
          (recs'[k].status # recs[k].status /\ recs'[k].status # "gone")
             => recs[k].status = "running" /\ IsTerminal(recs'[k].status)]_vars
\* A 'close' event has arrived after an 'error' event for a stored record.
C3_Witness ==
    \E k \in DOMAIN recs :
        child[k].st = "closed" /\ child[k].errorEmitted /\ recs[k].status = "failed"

\* C8: a POST /run with a missing or empty prompt is answered 400 and
\* changes neither the store, the task objects, the processes nor the
\* directories.
C8_EmptyPromptNoSideEffect ==
    [][(http'.op = "run" /\ Falsy(http'.prompt))
          => http'.code = 400 /\ UNCHANGED <<tasks, recs, child, dirs>>]_vars
\* An empty prompt was rejected while a record was in the store.
C8_Witness ==
    /\ http.op = "run" /\ http.prompt = PromptStr("") /\ http.code = 400
    /\ \E c \in Containers : DOMAIN tasks[c] # {}

\* C9: when POST /run answers 202 {taskId, status: "running"}, the record is
\* in the store under that task id, is running, and its process has not
\* ended.
C9_RegisteredBeforeReply ==
    (http.op = "run" /\ http.code = 202)
       => /\ http.payload = StartedPayload(Val(http.taskId))
          /\ Val(http.taskId) \in DOMAIN tasks[http.c]
          /\ recs[tasks[http.c][Val(http.taskId)]].status = "running"
          /\ child[tasks[http.c][Val(http.taskId)]].st = "running"
C9_Witness == http.op = "run" /\ http.code = 202

\* C10: after 'close' the record is completed exactly when the code was 0,
\* failed for every other code (null included), and exitCode is the code.
C10_StatusFromExitCode ==
    \A k \in DOMAIN recs :
        child[k].st = "closed"
           => /\ recs[k].exitCode = child[k].code
              /\ recs[k].status = "completed" <=> child[k].code = Some(0)
              /\ recs[k].status = "failed" <=> child[k].code # Some(0)
\* A process killed by a signal (code null) left a failed record.
C10_Witness ==
    \E k \in DOMAIN recs :
        child[k].st = "closed" /\ child[k].code = Null /\ recs[k].status = "failed"

\* ==================================================== orchestrator claims

\* C4: a failed webhook dispatch is swallowed: runAgent still returns, and a
\* task observed as completed (without an error field, its log entry stored)
\* is still reported with success = true.
C4_NotifierFailureSwallowed ==
    \A i \in Invs :
        inv[i].notifyFailed
           => /\ inv[i].pc # "thrown"
              /\ (inv[i].pc = "returned" /\ inv[i].seen = "completed"
                    /\ ~inv[i].seenError /\ ~inv[i].putFailed)
                    => Val(inv[i].ret).success

\* C5: runAgent never rejects: every call that ends, ends by returning a
\* {success, output | error} value.
C5_RunAgentNeverThrows ==
    \A i \in Invs : inv[i].pc # "thrown"

\* C6: when runAgent returns for a known agent, the Log Store holds an
\* entry of that agent under the key agentId:startTime of the call.
C6_LoggedBeforeReturn ==
    \A i \in Invs :
        (inv[i].pc = "returned" /\ inv[i].agentId \in DOMAIN AGENTS)
           => /\ LogKey(inv[i].agentId, inv[i].startTime) \in DOMAIN logs
              /\ logs[LogKey(inv[i].agentId, inv[i].startTime)].agentId = inv[i].agentId
\* A call has returned its timeout failure.
C6_Witness ==
    \E i \in Invs : inv[i].pc = "returned" /\ inv[i].timedOut

\* C7: a call issues at most 120 status queries, and it gives up with the
\* timeout only after exactly 120 queries, each answered with a
\* non-terminal status.
C7_AtMost120Polls ==
    \A i \in Invs :
        /\ inv[i].queries <= 120
        /\ inv[i].timedOut => inv[i].queries = 120 /\ inv[i].running = 120
\* The timeout failure has been returned.
C7_Witness ==
    \E i \in Invs :
        /\ inv[i].pc = "returned" /\ inv[i].timedOut
        /\ Val(inv[i].ret) = [success |-> FALSE, text |-> TimeoutMessage]

\* ============================================= executor claims, continued

\* C11: a status snapshot of a task whose spawn failed (its error field is
\* set) has status failed and no exit code, also when it is served after
\* the 'close' event that follows the 'error' event.
C11_SpawnFailureNoExitCode ==
    (http.op = "status" /\ http.code = 200 /\ IsSet(http.payload.error))
       => /\ http.payload.status = "failed"
          /\ http.payload.exitCode = Null

\* C12: a record whose process was killed at the 10 minute ceiling and has
\* ended is failed and its exitCode is null.
C12_KillCeilingFailedNoExitCode ==
    \A k \in DOMAIN recs :
        (child[k].signalled /\ child[k].st = "closed")
           => /\ recs[k].status = "failed"
              /\ recs[k].exitCode = Null
\* A process was killed at the ceiling, its 'close' event was handled and
\* the record is failed without an exit code.
C12_Witness ==
    \E k \in DOMAIN recs :
        /\ child[k].signalled /\ child[k].st = "closed"
        /\ recs[k].status = "failed" /\ recs[k].exitCode = Null
        /\ IsSet(recs[k].endTime)

\* C13: every completed or failed snapshot served by GET /status carries
\* the parsed result.
C13_TerminalSnapshotHasResult ==
    (http.op = "status" /\ http.code = 200 /\ IsTerminal(http.payload.status))
       => IsSet(http.payload.result)

\* ========================================= orchestrator claims, continued

\* The call observed a completed record whose result is the raw-text
\* wrapper of output that JSON.parse rejected.
ObservedRaw(call) ==
    /\ IsSet(call.observed)
    /\ Val(call.observed).status = "completed"
    /\ IsSet(Val(call.observed).result)
    /\ IsSet(Val(Val(call.observed).result).raw)

\* C14: a process that exits with code 0 after writing output that is not
\* JSON leaves a completed record whose result is {raw: stdout}; a runAgent
\* call that collects such a record goes down the success path, and if it
\* ends otherwise than by returning success = true, it is because a log
\* write or a webhook call failed.
C14_ParseErrorNotAFailure ==
    /\ \A k \in DOMAIN recs :
          (child[k].st = "closed" /\ child[k].code = Some(0)
              /\ JSONParse(recs[k].stdout) = Null)
             => /\ recs[k].status = "completed"
                /\ recs[k].result = Some(JsonObject(Some(recs[k].stdout), Null))
    /\ \A i \in Invs :
          ObservedRaw(inv[i])
             => /\ inv[i].pc \in {"putOk", "notifyOk", "returned"}
                   \/ inv[i].putFailed \/ inv[i].notifyFailed
                /\ inv[i].pc = "returned"
                     => \/ Val(inv[i].ret).success
                        \/ inv[i].putFailed \/ inv[i].notifyFailed
\* A call has collected the record of a process that wrote "oops" and
\* exited with code 0, and has returned success = true.
C14_Witness ==
    \E i \in Invs :
        /\ ObservedRaw(inv[i])
        /\ Val(Val(inv[i].observed).result).raw = Some("oops")
        /\ inv[i].pc = "returned" /\ Val(inv[i].ret).success

\* The output the stated precedence gives for a payload with a result: a
\* string result, else the raw field, else the result field, else the dump
\* of the result; a field of the object counts when it is present and not
\* empty.
PrecedenceOutput(v) ==
    IF v.t = "string" THEN v.s
    ELSE IF IsSet(v.raw) /\ Val(v.raw) # "" THEN Val(v.raw)
    ELSE IF IsSet(v.result) /\ Val(v.result) # "" THEN Val(v.result)
    ELSE Stringify(v)

\* stderr, when present, is appended as a suffix.
WithStderr(output, stderr) ==
    IF IsSet(stderr) THEN output \o "\n\nStderr: " \o Val(stderr) ELSE output

\* The last step was a status query answered with a completed or failed
\* payload, handled by call i.
TerminalAnswer(i) ==
    /\ http.op = "status" /\ http.code = 200 /\ IsTerminal(http.payload.status)
    /\ http.c = inv[i].agentId

\* What call i must have done with the payload p it just received, if
\* `output` is the output derived from p: fail with the error field if there
\* is one, fail with exit code and output if the status is failed, else go
\* on with the output.
HandledAs(i, p, output) ==
    IF IsSet(p.error) THEN inv[i].pc = "putErr" /\ inv[i].text = Val(p.error)
    ELSE IF p.status = "failed"
    THEN /\ inv[i].pc = "putErr"
         /\ inv[i].text = "Task failed with exit code " \o CodeText(p.exitCode)
                             \o ": " \o output
    ELSE inv[i].pc = "putOk" /\ inv[i].text = output

\* C15 as stated: for every terminal payload that carries a result, the
\* output is given by the precedence string result > raw > result > dump,
\* with stderr appended.
C15_PrecedenceForEveryResult ==
    \A i \in Invs :
        (TerminalAnswer(i) /\ IsSet(http.payload.result))
           => HandledAs(i, http.payload,
                        WithStderr(PrecedenceOutput(Val(http.payload.result)),
                                   http.payload.stderr))

\* C15, amended: the precedence gives the output for every terminal payload
\* whose result is present and not the empty string; for a payload with no
\* result or an empty string as result the output is "No output"; stderr is
\* appended in both cases.  The output is a function of the payload.
C15_PrecedenceForTruthyResult ==
    \A i \in Invs :
        TerminalAnswer(i)
           => LET p == http.payload
                  truthy == IsSet(p.result) /\ Val(p.result) # JsonString("")
              IN HandledAs(i, p,
                           WithStderr(IF truthy THEN PrecedenceOutput(Val(p.result))
                                      ELSE "No output",
                                      p.stderr))
\* A completed payload whose result has both a raw and a result field, with
\* stderr, was turned into the raw text with the stderr suffix.
C15_Witness ==
    \E i \in Invs :
        /\ TerminalAnswer(i)
        /\ http.payload.status = "completed" /\ http.payload.error = Null
        /\ http.payload.result = Some(JsonObject(Some("rawtext"), Some("hello")))
        /\ http.payload.stderr = Some("warn")
        /\ inv[i].pc = "putOk"
        /\ inv[i].text = "rawtext\n\nStderr: warn"

\* The status payload fields of the scenario: exit code 0, stdout
\* {"result":"hello"}, nothing on stderr.
HelloObserved ==
    [status |-> "completed", exitCode |-> Some(0),
     result |-> Some(JsonObject(Null, Some("hello"))),
     stderr |-> Null, error |-> Null]

\* C16: a process that exits with code 0 after writing {"result":"hello"}
\* and nothing to stderr leaves a completed record with the parsed object
\* as result; the runAgent call that polls it derives the output "hello"
\* and returns success = true with that output (unless a log write or a
\* webhook call of the call failed).
C16_HelloScenario ==
    /\ \A k \in DOMAIN recs :
          (child[k].st = "closed" /\ child[k].code = Some(0)
              /\ recs[k].stdout = "{\"result\":\"hello\"}" /\ recs[k].stderr = "")
             => /\ recs[k].status = "completed"
                /\ recs[k].result = Some(JsonObject(Null, Some("hello")))
                /\ Observed(Snapshot("pentest", recs[k])) = HelloObserved
    /\ \A i \in Invs :
          (inv[i].observed = Some(HelloObserved)
              /\ ~inv[i].putFailed /\ ~inv[i].notifyFailed)
             => /\ inv[i].pc \in {"putOk", "notifyOk", "returned"}
                /\ inv[i].text = "hello"
                /\ inv[i].pc = "returned"
                     => Val(inv[i].ret) = [success |-> TRUE, text |-> "hello"]
\* The call has polled the task of the scenario and returned.
C16_Witness ==
    \E i \in Invs :
        /\ inv[i].observed = Some(HelloObserved)
        /\ inv[i].pc = "returned"
        /\ Val(inv[i].ret) = [success |-> TRUE, text |-> "hello"]

\* The error text of a failed task: exit code and derived output.
FailedText(o) ==
    "Task failed with exit code " \o CodeText(o.exitCode) \o ": " \o DeriveOutput(o)

\* A call that returned success = true had observed a completed status
\* without an error field.
SuccessOnlyWhenCompleted(i) ==
    (inv[i].pc = "returned" /\ Val(inv[i].ret).success)
       => /\ IsSet(inv[i].observed)
          /\ Val(inv[i].observed).status = "completed"
          /\ Val(inv[i].observed).error = Null

\* C17 as stated: success = true is returned only for a completed status
\* without error field, and a call that observed a failed status returns
\* success = false with the exit code and the derived output in its text.
C17_FailedTextHasExitCode ==
    \A i \in Invs :
        /\ SuccessOnlyWhenCompleted(i)
        /\ (inv[i].pc = "returned" /\ IsSet(inv[i].observed)
               /\ Val(inv[i].observed).status = "failed")
              => Val(inv[i].ret) =
                    [success |-> FALSE, text |-> FailedText(Val(inv[i].observed))]

\* C17, amended: success = true is returned only for a completed status
\* without error field; a call that observed a failed status without error
\* field returns success = false with the exit code and the derived output
\* in its text; a call that observed a status with an error field returns
\* success = false with that error as its text.
C17_FailedTextUnlessErrorField ==
    \A i \in Invs :
        /\ SuccessOnlyWhenCompleted(i)
        /\ (inv[i].pc = "returned" /\ IsSet(inv[i].observed))
              => LET o == Val(inv[i].observed)
                 IN /\ (o.status = "failed" /\ o.error = Null)
                         => Val(inv[i].ret) = [success |-> FALSE, text |-> FailedText(o)]
                    /\ IsSet(o.error)
                         => Val(inv[i].ret) = [success |-> FALSE, text |-> Val(o.error)]
\* A call has returned the failure of a process that exited with code 1.
C17_Witness ==
    \E i \in Invs :
        /\ inv[i].pc = "returned" /\ IsSet(inv[i].observed)
        /\ Val(inv[i].observed).status = "failed"
        /\ Val(inv[i].observed).exitCode = Some(1)
        /\ Val(inv[i].observed).error = Null
        /\ ~Val(inv[i].ret).success

\* C18: once a submit or a status query of a call has failed in transport
\* or was answered with a non-2xx status, the call is in its catch block or
\* has ended, it sends no further request, and if it returns, it returns
\* success = false; after a failed submit no status query was ever sent.
C18_TransportErrorNotRetried ==
    /\ [](\A i \in Invs :
            inv[i].failedRequest # ""
               => /\ inv[i].pc \in {"putErr", "notifyErr", "returned", "thrown"}
                  /\ inv[i].pc = "returned" => ~Val(inv[i].ret).success
                  /\ inv[i].failedRequest = "submit"
                       => inv[i].queries = 0 /\ inv[i].attempts = 0)
    /\ [][\A i \in Invs :
            inv[i].failedRequest # ""
               => /\ http'.op = "none"
                  /\ inv'[i].queries = inv[i].queries
                  /\ inv'[i].failedRequest = inv[i].failedRequest]_vars
\* A call whose second status query failed has returned success = false
\* without a third query.
C18_Witness ==
    \E i \in Invs :
        /\ inv[i].failedRequest = "status" /\ inv[i].queries = 2
        /\ inv[i].pc = "returned" /\ ~Val(inv[i].ret).success

\* The record of the task call i submitted is in the store of its container.
TaskInStore(i) == inv[i].taskId \in DOMAIN tasks[inv[i].agentId]

\* C19: the step in which a call runs into its poll timeout and every later
\* step of that call send nothing to the executor and leave the store, the
\* records and the processes as they are; the record of the task stays in
\* the store.
C19_TimeoutDoesNotCancel ==
    /\ [](\A i \in Invs : inv[i].timedOut => TaskInStore(i))
    /\ [][\A i \in Invs :
            (inv'[i].timedOut /\ inv'[i] # inv[i])
               => /\ http'.op = "none"
                  /\ UNCHANGED <<tasks, recs, child, dirs, served>>]_vars
\* The call has returned its timeout failure while the record is still
\* running in the store and the process has not ended.
C19_Witness ==
    \E i \in Invs :
        /\ inv[i].timedOut /\ inv[i].pc = "returned"
        /\ TaskInStore(i)
        /\ recs[tasks[inv[i].agentId][inv[i].taskId]].status = "running"
        /\ child[tasks[inv[i].agentId][inv[i].taskId]].st = "running"

\* C20: no step removes or changes an entry that is stored in AGENT_LOGS.
C20_LogEntriesImmutable ==
    [][\A key \in DOMAIN logs :
          key \in DOMAIN logs' /\ logs'[key] = logs[key]]_vars

\* ================================================= concurrent runAgent calls
PairDistinct == inv[1].agentId # inv[2].agentId
\* The key under which call i logs
OwnLogKey(i) == LogKey(inv[i].agentId, inv[i].startTime)
\* Call i takes this step
StepOf(i) == inv'[i] # inv[i]
\* Call i sends a status query in this step and is answered with the state
\* of the record its own submission created
PollAnswersOwnTask(i) ==
    (inv[i].pc = "poll" /\ StepOf(i)) =>
        /\ http'.code = 200
        /\ http'.payload = Snapshot(inv[i].taskId, recs[inv[i].own])

\* C21: two concurrent runAgent calls for two different agents are independent.
\* Every request of a call goes to the container named by the call's own
\* agent id; while a call polls, the entry it polls is the record its own
\* submission created, and every status answer it gets is the snapshot of
\* that record; a step of the other call changes neither that record nor
\* its process nor the call; and when both calls have returned, the log
\* store holds exactly two entries, one per agent id, each with the
\* outcome its call returned.
C21_DistinctAgentsIndependent ==
    /\ [](PairDistinct =>
            /\ \A i \in Pair :
                  inv[i].pc \in {"sleep", "poll"} =>
                      /\ TaskInStore(i)
                      /\ tasks[inv[i].agentId][inv[i].taskId] = inv[i].own
            /\ (\A i \in Pair : inv[i].pc = "returned") =>
                  /\ DOMAIN logs = {OwnLogKey(i) : i \in Pair}
                  /\ Cardinality(DOMAIN logs) = 2
                  /\ \A i \in Pair :
                        /\ logs[OwnLogKey(i)].agentId = inv[i].agentId
                        /\ logs[OwnLogKey(i)].success = Val(inv[i].ret).success
                        /\ logs[OwnLogKey(i)].text = Val(inv[i].ret).text)
    /\ [][PairDistinct' =>
            \A i \in Pair :
                /\ (StepOf(i) /\ http'.op # "none") => http'.c = inv'[i].agentId
                /\ PollAnswersOwnTask(i)
                /\ \A j \in Pair \ {i} :
                      (StepOf(j) /\ inv[i].own # 0) =>
                          /\ inv'[i] = inv[i]
                          /\ recs'[inv[i].own] = recs[inv[i].own]
                          /\ child'[inv[i].own] = child[inv[i].own]]_vars

\* Both calls have returned, one with success and one with the failure of
\* its own task, and the log store holds their two entries.
C21_Witness ==
    /\ PairDistinct
    /\ \A i \in Pair : inv[i].pc = "returned" /\ IsSet(inv[i].observed)
    /\ Val(inv[1].ret).success
    /\ ~Val(inv[2].ret).success
    /\ inv[2].seen = "failed"
    /\ Cardinality(DOMAIN logs) = 2

\* C22: every status answer a runAgent call gets is the snapshot of the
\* record its own submission created, whatever the other call does and
\* also when both calls are for the same agent.
C22_OwnTaskOutcome == [][\A i \in Pair : PollAnswersOwnTask(i)]_vars

\* ============================================================ unknown agent
UnknownAgent(i) == inv[i].pc # "idle" /\ inv[i].agentId \notin DOMAIN AGENTS

Due(hour, day) ==
    {r.key : r \in {q \in CronTable :
                      q.hour = hour /\ (q.dow = Null \/ Val(q.dow) = day)}}
Started == {inv[i].agentId : i \in DOMAIN inv}

\* C24: for every hour of every weekday the scheduled handler builds the
\* list of exactly the agents the table schedules for that hour and day,
\* each once; the calls it has started are one per agent of that list,
\* all of defined agents, and all still in flight (none was awaited).
C24_ScheduledTable ==
    LET hour == UTCHours(now)
        day == UTCDay(now)
        toRun == ToRun(hour, day)
    IN /\ {toRun[i] : i \in DOMAIN toRun} = Due(hour, day)
       /\ Len(toRun) = Cardinality(Due(hour, day))
       /\ inv # <<>> =>
             /\ Started = Due(hour, day)
             /\ Len(inv) = Cardinality(Due(hour, day))
             /\ \A i \in DOMAIN inv : inv[i].pc = "submit" /\ inv[i].ret = Null

\* Monday at 9: kpi and pentest are both in flight.
C24_Witness ==
    /\ UTCHours(now) = 9 /\ UTCDay(now) = 1
    /\ Len(inv) = 2
    /\ Started = {"kpi", "pentest"}

\* ================================================================ getLogs
\* The stored entries of an agent, the start time in an entry's key, and
\* the (at most five) entries of an agent with the largest start times
EntriesOf(agentId) == {k \in DOMAIN logs : logs[k].agentId = agentId}
StartOf(k) == CHOOSE t \in LogTimes : k = LogKey(logs[k].agentId, t)
MostRecent(agentId) ==
    {k \in EntriesOf(agentId) :
        Cardinality({j \in EntriesOf(agentId) : StartOf(j) > StartOf(k)}) < 5}
KeyOfPart(part) == CHOOSE k \in DOMAIN logs : Render(logs[k]) = part

\* C25: the answer of getLogs for an agent is the sentinel exactly when the
\* store holds no entry of that agent; otherwise it consists of the
\* renderings of the (at most 5) entries of that agent with the largest
\* start times, each once, in ascending order of start time, and of no
\* entry of another agent.
C25_FiveMostRecentLogs ==
    http.op = "logs" =>
        LET agentId == Val(http.taskId)
            answer == http.payload.logs
        IN /\ answer.sentinel <=> EntriesOf(agentId) = {}
           /\ answer.sentinel => answer.parts = <<>>
           /\ Len(answer.parts) = Cardinality(MostRecent(agentId))
           /\ Len(answer.parts) <= 5
           /\ \A i \in DOMAIN answer.parts :
                 /\ \E k \in MostRecent(agentId) : answer.parts[i] = Render(logs[k])
                 /\ logs[KeyOfPart(answer.parts[i])].agentId = agentId
           /\ \A i, j \in DOMAIN answer.parts :
                 i < j => StartOf(KeyOfPart(answer.parts[i]))
                            < StartOf(KeyOfPart(answer.parts[j]))

\* The logs of pentest were read from a store with more than five entries
\* of pentest and some of bughunter.
C25_Witness ==
    /\ http.op = "logs" /\ http.taskId = Some("pentest")
    /\ Cardinality(EntriesOf("pentest")) > 5
    /\ EntriesOf("bughunter") # {}
    /\ Len(http.payload.logs.parts) = 5

\* =================================================== /tasks, /health, probe
\* C29: the answer of GET /tasks has exactly one item per entry of the
\* container's store, with the id, status and start time of that record,
\* whatever the status; the number in the answer of GET /health is the
\* number of entries; and neither request changes the store, the records
\* or the processes.
C29_TasksAndHealthReadOnly ==
    /\ [](http.op = "tasks" =>
            LET items == http.payload.tasks
                store == tasks[http.c]
            IN /\ {item.taskId : item \in items} = DOMAIN store
               /\ Cardinality(items) = Cardinality(DOMAIN store)
               /\ \A item \in items :
                     /\ item.status = recs[store[item.taskId]].status
                     /\ item.startTime = recs[store[item.taskId]].startTime)
    /\ [](http.op = "health" =>
            http.payload.tasks = Cardinality(DOMAIN tasks[http.c]))
    /\ [][http'.op \in {"tasks", "health"} =>
            UNCHANGED <<tasks, recs, child, dirs>>]_vars

\* GET /tasks listed two records, one of them terminal and not collected.
C29_Witness ==
    /\ http.op = "tasks"
    /\ Cardinality(http.payload.tasks) = 2
    /\ \E item \in http.payload.tasks : IsTerminal(item.status)
    /\ \E item \in http.payload.tasks : item.status = "running"

\* C26: the warm route always answers 200 with status "warm" or "warming",
\* also when the health request to the container was rejected or answered
\* with something that is not JSON, and the step changes neither the
\* store, the records and the processes of the container nor the log
\* store nor the notifications.
C26_WarmProbeBestEffort ==
    /\ [](http.op = "warm" =>
            /\ http.code = 200
            /\ http.payload.kind = "warm"
            /\ http.payload.status \in {"warm", "warming"})
    /\ [][http'.op = "warm" =>
            UNCHANGED <<tasks, recs, child, dirs, logs, hook, inv>>]_vars

\* The probe answered "warming" while the container held a record.
C26_Witness ==
    /\ http.op = "warm"
    /\ http.payload.status = "warming"
    /\ tasks["pentest"] # EmptyMap

\* ========================================================= dashboard retry
\* C27: a run started from the dashboard sends at most 4 run requests, a
\* retry is scheduled with a delay of 10 seconds, and every answer that was
\* followed by a retry said that the container was still initializing.
C27_RetryOnlyWhenInitializing ==
    /\ dash.requests <= 4
    /\ dash.pc = "waiting" => dash.delay = 10000
    /\ \A n \in DOMAIN dash.answers :
          (n < Len(dash.answers) \/ dash.pc = "waiting")
              => dash.answers[n] = "initializing"

\* ================================================================ /run-sync
\* C28: no step of a POST /run-sync request (its handler and the callbacks
\* of its child) changes the task store of the container, and the answer
\* 200 with the outcome is written only by the step in which the child of
\* the request closed.
C28_RunSyncLeavesStore ==
    /\ [][(sync' # sync \/ http'.op = "run-sync") => tasks' = tasks]_vars
    /\ [](http.op = "run-sync" /\ http.code = 200 =>
            \E k \in DOMAIN sync :
                /\ sync[k].res = Some(http)
                /\ sync[k].child.st = "closed"
                /\ http.payload.exitCode = sync[k].child.code)

\* ======================================================== notifier excerpt
\* C30: the excerpt in every notification is at most 2500 characters long,
\* whatever the length of the text: it is the whole text when that has at
\* most 2500 characters, and otherwise its first 2500 characters, marked
\* as cut by the ellipsis.
C30_ExcerptAtMost2500 ==
    \A i \in Invs : \A n \in hook :
        LET text == inv[i].text
            rest == IF Len(text) > Len(n.message)
                    THEN SubSeq(text, Len(n.message) + 1, Len(text)) ELSE ""
        IN /\ Len(n.message) <= 2500
           /\ Len(n.message) = IF Len(text) <= 2500 THEN Len(text) ELSE 2500
           /\ n.message \o rest = text
           /\ n.ellipsis <=> Len(text) > 2500

\* A text of more than 2500 characters was notified.
C30_Witness ==
    \E i \in Invs : \E n \in hook :
        /\ Len(inv[i].text) > 2500
        /\ Len(n.message) = 2500
        /\ n.ellipsis

\* ============================================================== termination
\* C31: under fair delivery of process events, every record that is in the
\* store with status running is later completed or failed (or is no
\* longer a record of the server).
C31_RunningEventuallyTerminal ==
    \A k \in 1..MaxRecs :
        (k \in DOMAIN recs /\ InStore(k, tasks) /\ recs[k].status = "running")
            ~> (k \in DOMAIN recs /\ recs[k].status # "running")

\* What the delivery of process events does give: a running record whose
\* child was spawned becomes completed or failed (or is replaced).
SpawnedEventuallyTerminal ==
    \A k \in 1..MaxRecs :
        (k \in DOMAIN recs /\ InStore(k, tasks) /\ recs[k].status = "running"
            /\ child[k].st # "none")
            ~> (k \in DOMAIN recs /\ recs[k].status # "running")

\* ============================================================== concurrency
\* An output, exit or error event of the child of record j is delivered.
EventOf(j) == StdoutOf(j) \/ StderrOf(j) \/ CloseOf(j) \/ ErrorOf(j)

\* Record j was registered under an id that now refers to the later record k.
Superseded(j, k) ==
    /\ j < k /\ child[j].st = "running"
    /\ child[j].taskId \in DOMAIN tasks[child[j].c]
    /\ tasks[child[j].c][child[j].taskId] = k

\* C32: an event of a spawned process changes no record but the one its own
\* POST /run call registered; in particular the record that a later
\* submission registered under the same task id keeps its status, exit code,
\* result and buffers.
C32_SingleWriterPerRecord ==
    [][\A j \in DOMAIN recs :
          EventOf(j) =>
              \A k \in DOMAIN recs \ {j} :
                  InStore(k, tasks) => recs'[k] = recs[k]]_vars

\* An earlier process is still running after its id was registered again, and
\* has delivered output into its own record.
C32_Witness ==
    \E j, k \in DOMAIN recs :
        /\ Superseded(j, k)
        /\ recs[j].stdout # "" /\ recs[k].stdout = ""
        /\ recs[k].status = "running"

\* ============================================================ one response
\* C33: for every POST /run-sync request, at most one of the callbacks
\* 'close' and 'error' of its child writes a response, also when a failed
\* spawn emits 'error' and then 'close'.
C33_OneResponsePerRequest ==
    \A k \in DOMAIN sync : sync[k].writeHeads <= 1

\* =========================================================== error handling
\* C34: a POST /run request that is answered with an error status leaves the
\* task store as it was: no record is added and none is replaced.
C34_RefusedRunLeavesStore ==
    [][(http'.op = "run" /\ http'.code >= 400) => UNCHANGED <<tasks, recs>>]_vars

\* What does hold: a request refused before tasks.set (unparseable body,
\* missing prompt, directory creation failure) leaves the store as it was.
RefusedBeforeRegistering ==
    [][(http'.op = "run" /\ http'.code >= 400 /\ ~IsSet(http'.taskId))
          => UNCHANGED <<tasks, recs>>]_vars

\* ========================================================= record invariant
\* The fields a record of each status has.
Consistent(task) ==
    CASE task.status = "running" ->
            /\ task.exitCode = Null /\ task.endTime = Null
            /\ task.result = Null /\ task.error = Null
      [] task.status = "completed" ->
            /\ task.exitCode = Some(0) /\ IsSet(task.endTime)
            /\ IsSet(task.result) /\ task.error = Null
      [] task.status = "failed" ->
            /\ IsSet(task.endTime)
            /\ \/ task.exitCode # Some(0) /\ IsSet(task.result)
               \/ IsSet(task.error)
      [] OTHER -> FALSE

\* C35: in every reachable state every record of the store is consistent:
\* running with exitCode null and no endTime, result or error; completed
\* with exitCode 0, endTime and result and no error; failed with endTime
\* and either a non-zero or null exit code with a result, or an error.
C35_RecordsConsistent ==
    \A k \in DOMAIN recs : InStore(k, tasks) => Consistent(recs[k])

\* The store holds a record failed by 'error' alone, with the error message
\* and an endTime and neither exit code nor result.
C35_Witness ==
    \E k \in DOMAIN recs :
        /\ InStore(k, tasks) /\ recs[k].status = "failed"
        /\ IsSet(recs[k].error) /\ IsSet(recs[k].endTime)
        /\ recs[k].exitCode = Null /\ recs[k].result = Null

\* ==================================================================== frame
\* The step is a status query that was answered with the snapshot of a
\* completed or failed record stored under id in container c.
CollectedBy(c, id) ==
    /\ http'.op = "status" /\ http'.c = c /\ http'.taskId = Some(id)
    /\ http'.code = 200 /\ IsTerminal(http'.payload.status)
    /\ IsTerminal(recs[tasks[c][id]].status)

\* C36: a task id leaves the store only in a step that is a status query
\* observing its record completed or failed; every other step (a status
\* query on a running record or an unknown id, GET /tasks, GET /health,
\* POST /run-sync, a process event) leaves the set of stored ids unchanged.
C36_RemovedOnlyByTerminalQuery ==
    [][\A c \in Containers : \A id \in DOMAIN tasks[c] :
          id \notin DOMAIN tasks'[c] => CollectedBy(c, id)]_vars

\* What does hold: as long as the server process lives, ids leave the
\* store only that way.
RemovedOnlyByQueryWhileUp ==
    [][~SyncCloseAfterError =>
          \A c \in Containers : \A id \in DOMAIN tasks[c] :
              id \notin DOMAIN tasks'[c] => CollectedBy(c, id)]_vars

\* ========================================================= order of requests
\* The requests one call has sent so far are in the order of the code.
RequestsOrdered(call) ==
    /\ call.submits <= 1
    /\ (KnownAgent(call.agentId) /\ call.pc \notin {"idle", "submit"})
          => call.submits = 1
    /\ call.queries > 0 => call.submits = 1 /\ call.taskId # ""
    /\ call.queries = IF call.pc = "poll" THEN call.attempts - 1 ELSE call.attempts

\* The step sends a status query of call i.
QuerySent(i) == inv'[i].queries = inv[i].queries + 1

\* C37: within one runAgent call exactly one submit is sent; a status query
\* is sent only after the submit was answered successfully, and each one
\* after one more sleep (as many sleeps as queries, the first query
\* included); none is sent once a completed or failed status or a status
\* response that is not OK has been observed.
C37_RequestsOrdered ==
    /\ [](\A i \in Invs : RequestsOrdered(inv[i]))
    /\ [][\A i \in Invs :
            QuerySent(i) =>
                /\ inv[i].pc = "poll" /\ inv[i].taskId # ""
                /\ inv[i].running = inv[i].queries
                /\ inv[i].seen = "" /\ inv[i].failedRequest = ""]_vars

\* The call has slept and polled more than once and then observed a terminal
\* status.
C37_Witness ==
    \E i \in Invs :
        /\ inv[i].queries > 2 /\ inv[i].seen # ""
        /\ inv[i].running = inv[i].queries - 1

\* =========================================================== log and result
\* C38: once a runAgent call for a configured agent has returned, the entry
\* stored under the key of the run has success = true exactly when the
\* returned value has success = true.
C38_LoggedFlagIsReturnedFlag ==
    \A i \in Invs :
        (inv[i].pc = "returned" /\ KnownAgent(inv[i].agentId)) =>
            LET key == LogKey(inv[i].agentId, inv[i].startTime)
            IN /\ key \in DOMAIN logs
               /\ logs[key].success = Val(inv[i].ret).success

\* The call stored the success entry, the notification then failed, and the
\* call returned success = false with the entry rewritten.
C38_Witness ==
    \E i \in Invs :
        /\ inv[i].pc = "returned" /\ inv[i].seen = "completed"
        /\ inv[i].notifyFailed /\ ~Val(inv[i].ret).success
        /\ ~logs[LogKey(inv[i].agentId, inv[i].startTime)].success

\* ===================================================== termination of a call
\* The call has ended: it returned a value or it rejected.
Ended(call) == call.pc \in {"returned", "thrown"}

\* C39: when every request and every sleep of a runAgent call settles, the
\* call ends, after at most one submit and maxAttempts (120) iterations of
\* sleep and status query, whatever the status answers are.
C39_CallEnds ==
    /\ \A i \in Invs : (inv[i].pc # "idle") ~> Ended(inv[i])
    /\ [](\A i \in Invs :
            /\ inv[i].submits <= 1
            /\ inv[i].attempts <= 120 /\ inv[i].queries <= inv[i].attempts)

\* A call whose task was running at each of the 120 status queries has
\* ended.
C39_Witness ==
    \E i \in Invs :
        /\ Ended(inv[i]) /\ inv[i].submits = 1
        /\ inv[i].queries = 120 /\ inv[i].running = 120

====
